---- MODULE Spec2Model ----
(***************************************************************************)
(* Mortality-rate models of tfm_tuberc: the Lee-Carter fit and forecast    *)
(* (modelos/lee-carter.py), the APC data builder (modelos/apc_bayes.py)    *)
(* and the observed-rate loader (modelos/eval_modelos.py).                 *)
(*                                                                         *)
(* Numbers.  Python floats are modelled by exact rationals <<n, d>> in     *)
(* lowest terms (d > 0), with the IEEE specials NaN = <<0, 0>>,            *)
(* inf = <<1, 0>> and -inf = <<-1, 0>>.  Rounding error (relative 1e-16)   *)
(* is below the resolution of the model.  Log-rate                         *)
(* matrices are integer matrices: fit_lee_carter commutes with a change    *)
(* of unit (L -> c*L gives ax -> c*ax, kt -> c*kt, bx unchanged), so the   *)
(* entries are log-rates counted in an arbitrary small unit.               *)
(***************************************************************************)
EXTENDS Integers, Sequences, FiniteSets, TLC

VARIABLES
    lcIn,    \* fit_lee_carter: the call's argument lnmx (and how it was built)
    lcOut,   \* fit_lee_carter: the returned tuple, or NoResult before the call
    fcIn,    \* forecast_kt: the arguments and the state of the ARIMA dependency
    fcOut,   \* forecast_kt: what the call returned or raised, or NoResult
    fcTab,   \* the fitted and the forecast rate tables written from a fit
    tabIn,   \* the mortality table read from the CSV and the requested sex
    tabOut,  \* what the function called on the table returned or raised
    rtIn,    \* the rate functions: the arrays of death counts and populations
    rtOut,   \* the rate functions: the array of rates returned
    evIn,    \* metrics_for: the observed pivot and the fitted-rates file
    evOut,   \* metrics_for: its results with the two pivots as given and swapped
    apcIn,   \* the APC effect: length, and per chain the increments and sigma
    apcOut,  \* the APC effect: its value per chain and its posterior mean
    run,     \* the model run in progress (main of lee-carter.py or apc_bayes.py)
    outdir,  \* the output directory: for each artifact, the run that wrote it
    last,    \* how the runs so far ended
    fittedAt, \* the fitted-rate tables at the paths the evaluator reads
    pre      \* run_all_preproc: the scripts run so far and what main returned

lcVars == <<lcIn, lcOut>>
fcVars == <<fcIn, fcOut, fcTab>>
tabVars == <<tabIn, tabOut>>
rtVars == <<rtIn, rtOut>>
evVars == <<evIn, evOut>>
apcVars == <<apcIn, apcOut>>
runVars == <<run, outdir, last, fittedAt, pre>>

vars == <<lcVars, fcVars, tabVars, rtVars, evVars, apcVars, runVars>>

(***************************************************************************)
(* Bounds of the model.                                                    *)
(***************************************************************************)
MaxAges == 3     \* most age groups (rows) of a log-rate matrix
MaxYears == 3    \* most years (columns) of a log-rate matrix
MaxVal == 1      \* entries of a grid matrix are 0..MaxVal
WMax == 2        \* singular directions searched: integer vectors in -WMax..WMax
MaxHist == 3     \* most years of history given to forecast_kt
MaxYear == 4     \* history years are drawn from 1..MaxYear
MaxKt == 1       \* history kt values are drawn from -MaxKt..MaxKt
MaxHorizon == 2  \* horizons are drawn from -1..MaxHorizon
TabAges == 2     \* age groups (gr_et) of a table are drawn from 1..TabAges
TabYears == 2    \* years (ano) of a table are drawn from 1..TabYears
PopUnit == 2     \* population of a populated cell
MaxRows == 4     \* a table has at most MaxRows rows of sex 1
MaxDeaths == 1   \* a populated cell has 0 or MaxDeaths deaths
MaxRateLen == 2  \* most cells of an array given to the rate functions
MaxD == 2        \* their death counts are drawn from 0..MaxD
MaxE == 2        \* their populations are drawn from -MaxE..MaxE, or missing
EvAges == 2      \* age groups of the evaluator's frames are drawn from 1..EvAges
EvYears == 2     \* their years are drawn from 1..EvYears
EvCells == 2     \* most cells with a rate in the two frames together
EvMax == 2       \* a rate is 1 or EvMax
ApcAges == 2     \* the APC effects: A is drawn from 1..ApcAges
ApcYears == 2    \* the APC effects: T is drawn from 1..ApcYears
MaxEps == 1      \* an increment of an effect is -MaxEps, 0 or MaxEps
MaxSigma == 2    \* a sigma is 1/2 or MaxSigma
MaxRuns == 2     \* most runs on one output directory
MaxCode == 2     \* largest exit code of a preprocessing script

NoResult == [tag |-> "none"]
Idle == [tag |-> "idle"]

\* a component that the specification at hand does not run
LcIdle == lcIn = Idle /\ lcOut = NoResult
FcIdle == fcIn = Idle /\ fcOut = NoResult /\ fcTab = NoResult
TabIdle == tabIn = Idle /\ tabOut = NoResult
RtIdle == rtIn = Idle /\ rtOut = NoResult
EvIdle == evIn = Idle /\ evOut = NoResult
ApcIdle == apcIn = Idle /\ apcOut = NoResult
RunIdle == run = Idle /\ outdir = Idle /\ last = Idle /\ fittedAt = Idle /\ pre = Idle

(***************************************************************************)
(* Exact rational arithmetic.                                              *)
(***************************************************************************)
Abs(x) == IF x < 0 THEN -x ELSE x

RECURSIVE Gcd(_, _)
Gcd(a, b) == IF b = 0 THEN a ELSE Gcd(b, a % b)

Sign(x) == IF x < 0 THEN -1 ELSE IF x > 0 THEN 1 ELSE 0

\* n/d in lowest terms; x/0 is inf, -inf or (0/0) NaN
Rat(n, d) ==
    IF d = 0 THEN <<Sign(n), 0>>
    ELSE LET s == IF d < 0 THEN -1 ELSE 1
             g == Gcd(Abs(n), Abs(d))
         IN  <<(s * n) \div g, (s * d) \div g>>

NaN == <<0, 0>>
IsNaN(x) == x = NaN
IsFinite(x) == x[2] > 0
\* comparisons with 0; as in IEEE arithmetic they are false of NaN
RPos(x) == x[1] > 0
RNonPos(x) == x[1] < 0 \/ (x[1] = 0 /\ x[2] > 0)

RInt(n) == <<n, 1>>
RNeg(p) == <<-p[1], p[2]>>
\* inf + inf = inf and inf + (-inf) = NaN; every other sum by cross-multiplication
RAdd(p, q) ==
    IF p[2] = 0 /\ q[2] = 0
    THEN (IF p = q THEN p ELSE NaN)
    ELSE Rat(p[1] * q[2] + q[1] * p[2], p[2] * q[2])
RSub(p, q) == RAdd(p, RNeg(q))
RMul(p, q) == Rat(p[1] * q[1], p[2] * q[2])
RDiv(p, q) == Rat(p[1] * q[2], p[2] * q[1])

RECURSIVE SumIntTo(_, _)
SumIntTo(s, n) == IF n = 0 THEN 0 ELSE s[n] + SumIntTo(s, n - 1)

SumInt(s) == SumIntTo(s, Len(s))

RECURSIVE SumRatTo(_, _)
SumRatTo(s, n) == IF n = 0 THEN RInt(0) ELSE RAdd(s[n], SumRatTo(s, n - 1))

SumRat(s) == SumRatTo(s, Len(s))

\* np.mean of a vector of rationals
MeanRat(s) == RDiv(SumRat(s), RInt(Len(s)))

RECURSIVE DotTo(_, _, _)
DotTo(u, v, n) == IF n = 0 THEN 0 ELSE u[n] * v[n] + DotTo(u, v, n - 1)

Dot(u, v) == DotTo(u, v, Len(u))

NRows(M) == Len(M)
NCols(M) == Len(M[1])

(***************************************************************************)
(* Matrices are sequences of rows; vectors are sequences.                  *)
(***************************************************************************)
Trace(M) == SumInt([i \in 1..Len(M) |-> M[i][i]])

MatVec(M, w) == [i \in 1..Len(M) |-> Dot(M[i], w)]

\* u and w point along the same line (u = c*w for some c, or u = 0)
Parallel(u, w) == \A i, j \in 1..Len(w) : u[i] * w[j] = u[j] * w[i]

IsZeroVec(w) == \A i \in 1..Len(w) : w[i] = 0

RECURSIVE GcdVecTo(_, _)
GcdVecTo(w, n) == IF n = 0 THEN 0 ELSE Gcd(Abs(w[n]), GcdVecTo(w, n - 1))

GcdVec(w) == GcdVecTo(w, Len(w))

\* integer vectors of length n with entries in lo..hi
IntVecs(n, lo, hi) == [1..n -> lo..hi]

\* integer matrices with a rows and t columns, entries in lo..hi
IntMats(a, t, lo, hi) == [1..a -> [1..t -> lo..hi]]

UnitVec(n, k) == [i \in 1..n |-> IF i = k THEN 1 ELSE 0]

(***************************************************************************)
(* numpy.linalg.svd (lee-carter.py:76-79), first singular triple only.     *)
(* R = U diag(s) Vt with s sorted descending, so u1 = U[:,0] is a unit     *)
(* eigenvector of R R^T for its largest eigenvalue s1^2, and               *)
(* s1*v1 = R^T u1.  LAPACK fixes u1 only up to sign: both signs are        *)
(* outcomes.  u1 = w/||w|| is stored by its integer direction w; the       *)
(* residual R is stored as the integer matrix RT = T*R.                    *)
(*   - R = 0: LAPACK returns U = I, so u1 = e1.                            *)
(*   - otherwise w is admissible when (R R^T) w = lambda*w and             *)
(*     2*lambda > trace(R R^T): lambda exceeds the sum of all other        *)
(*     eigenvalues, hence is the largest, and is simple.  For rank(R) <= 2 *)
(*     (every matrix with at most 3 years or 2 ages) this is every         *)
(*     matrix whose largest singular value is simple.                      *)
(* A matrix with no admissible direction among the candidates (irrational  *)
(* direction, or a repeated largest singular value) is outside the model.  *)
(***************************************************************************)
GramT(RT) == [i \in 1..Len(RT) |-> [j \in 1..Len(RT) |-> Dot(RT[i], RT[j])]]

IsZeroMat(RT) == \A a \in 1..Len(RT) : IsZeroVec(RT[a])

Column(RT, t) == [a \in 1..Len(RT) |-> RT[a][t]]

Primitive(w) == LET g == GcdVec(w) IN [i \in 1..Len(w) |-> w[i] \div g]

Negate(w) == [i \in 1..Len(w) |-> -w[i]]

\* the directions searched for every matrix: primitive vectors in -WMax..WMax
SmallDirections ==
    [n \in 1..(MaxAges + 1) |-> {w \in IntVecs(n, -WMax, WMax) : GcdVec(w) = 1}]

SvdCandidates(RT) ==
    LET cols == {Column(RT, t) : t \in 1..NCols(RT)}
        dirs == {Primitive(c) : c \in {c \in cols : ~IsZeroVec(c)}}
    IN  SmallDirections[Len(RT)] \cup dirs \cup {Negate(d) : d \in dirs}

\* Mw is M w, computed once by the caller
IsTopLeftSingular(M, w, Mw) ==
    /\ ~IsZeroVec(w)
    /\ Parallel(Mw, w)
    /\ 2 * Dot(w, Mw) > Trace(M) * Dot(w, w)

TopDirections(M, cands) ==
    {w \in cands : \E Mw \in {MatVec(M, w)} : IsTopLeftSingular(M, w, Mw)}

SvdU1(RT) ==
    IF IsZeroMat(RT)
    THEN {UnitVec(Len(RT), 1)}
    ELSE UNION {TopDirections(M, SvdCandidates(RT)) : M \in {GramT(RT)}}

(***************************************************************************)
(* fit_lee_carter (lee-carter.py:61-98) on a dense matrix L (A x T).       *)
(* Quantities that carry the irrational factor 1/||w|| (bx_raw, kt_raw,    *)
(* bx_sum) are stored as their rational multiple of 1/||w||; bx, kt, ax    *)
(* and lnmx_fit are free of it and are stored exactly.                     *)
(***************************************************************************)
AtolInv == 100000000    \* 1/atol of np.isclose (atol = 1e-8, b = 0 so rtol is unused)

\* ax = np.nanmean(lnmx, axis=1)
RowMeans(L) == [a \in 1..NRows(L) |-> Rat(SumInt(L[a]), NCols(L))]

\* R = lnmx - ax[:, None], as RT = T*R
ResidualT(L) ==
    [a \in 1..NRows(L) |-> [t \in 1..NCols(L) |-> NCols(L) * L[a][t] - SumInt(L[a])]]

\* kt_raw = s1 * v1 = R^T u1, times ||w||
KtRawN(RT, w) == [t \in 1..NCols(RT) |-> Rat(Dot(Column(RT, t), w), NCols(RT))]

\* np.isclose(bx_sum, 0.0) for bx_sum = sw/||w||:  sw^2 * 1e16 <= ww
IsCloseZero(sw, ww) ==
    \/ sw = 0
    \/ ((ww \div (sw * sw)) \div AtolInv) >= AtolInv

L1Norm(w) == SumInt([i \in 1..Len(w) |-> Abs(w[i])])

\* a faulty variant of BxSum: the sum is the divisor even when it is near zero
BxSum_NoFallback(w) == [num |-> SumInt(w), eps |-> FALSE]

\* The divisor bx_sum, times ||w||: np.sum(bx_raw), or on the fallback branch
\* np.sum(np.abs(bx_raw)) + 1e-12.  The summand 1e-12 (eps) is recorded by the
\* flag; it shifts bx and kt by a relative 1e-12, below the model's resolution.
BxSum(w) ==
    IF IsCloseZero(SumInt(w), Dot(w, w))
    THEN [num |-> L1Norm(w), eps |-> TRUE]
    ELSE [num |-> SumInt(w), eps |-> FALSE]

\* a faulty variant of NormalizeBx: always divides by the L1 norm
NormalizeBx_ByL1Norm(w, div) == [a \in 1..Len(w) |-> Rat(w[a], L1Norm(w))]

\* bx = bx_raw / bx_sum
NormalizeBx(w, div) == [a \in 1..Len(w) |-> Rat(w[a], div.num)]

\* a faulty variant of ScaleKt: kt_raw is not multiplied by bx_sum
ScaleKt_NotRescaled(ktRawN, div, ww) ==
    [t \in 1..Len(ktRawN) |-> RMul(ktRawN[t], Rat(1, ww))]

\* a faulty variant of ScaleKt: kt_raw is divided by bx_sum like bx_raw
ScaleKt_Divided(ktRawN, div, ww) ==
    [t \in 1..Len(ktRawN) |-> RMul(ktRawN[t], Rat(1, div.num))]

\* kt = kt_raw * bx_sum       (1/||w|| twice: divide by w.w)
ScaleKt(ktRawN, div, ww) ==
    [t \in 1..Len(ktRawN) |-> RMul(ktRawN[t], Rat(div.num, ww))]

\* kt = kt - kt_mean
CenterKt(kt, ktMean) == [t \in 1..Len(kt) |-> RSub(kt[t], ktMean)]

\* ax = ax + bx * kt_mean
ShiftAx(ax, bx, ktMean) == [a \in 1..Len(ax) |-> RAdd(ax[a], RMul(bx[a], ktMean))]

\* lnmx_fit = ax[:, None] + bx[:, None] * kt[None, :]
Surface(ax, bx, kt) ==
    [a \in 1..Len(ax) |-> [t \in 1..Len(kt) |-> RAdd(ax[a], RMul(bx[a], kt[t]))]]

\* the outcome of fit_lee_carter(lnmx) by the shape of lnmx (lines 71-79): on a
\* matrix without rows or without columns U has no first column and U[:, 0]
\* raises (or numpy's svd rejects the empty array)
FitRaises(lnmx) == Len(lnmx) = 0 \/ Len(lnmx[1]) = 0

fit_lee_carter(L, w) ==
    LET RT == ResidualT(L)
        ax0 == RowMeans(L)
        bx_sum == BxSum(w)
        bx == NormalizeBx(w, bx_sum)
        kt0 == ScaleKt(KtRawN(RT, w), bx_sum, Dot(w, w))
        kt_mean == MeanRat(kt0)
        kt == CenterKt(kt0, kt_mean)
        ax == ShiftAx(ax0, bx, kt_mean)
    IN  [tag |-> "ok", u1 |-> w, bx_sum |-> bx_sum,
         ax |-> ax, bx |-> bx, kt |-> kt, lnmx_fit |-> Surface(ax, bx, kt)]

(***************************************************************************)
(* Inputs of fit_lee_carter: every A x T matrix with entries 0..MaxVal     *)
(* (2 <= A <= MaxAges, 2 <= T <= MaxYears), and matrices built from        *)
(* planted components L = ax + bx (x) kt with sum(bx) = 1, sum(kt) = 0:    *)
(* bx = b/sum(b) and kt = sum(b)*k for integer b, k, so L = ax + b (x) k.  *)
(***************************************************************************)
Shapes == (2..MaxAges) \X (2..MaxYears)

GridInput(L) == [lnmx |-> L, planted |-> NoResult]

PlantedInput(ax, b, k) ==
    [lnmx |-> [a \in 1..Len(b) |-> [t \in 1..Len(k) |-> ax[a] + b[a] * k[t]]],
     planted |-> [tag |-> "planted",
                  ax |-> [a \in 1..Len(b) |-> RInt(ax[a])],
                  bx |-> [a \in 1..Len(b) |-> Rat(b[a], SumInt(b))],
                  kt |-> [t \in 1..Len(k) |-> RInt(SumInt(b) * k[t])]]]

\* planted age profiles: flat, and rising 1, 2, ..., A
PlantedAx(n) == {[a \in 1..n |-> 0], [a \in 1..n |-> a]}

\* planted b with sum(b) > 0, so that bx = b/sum(b) sums to one
PlantedB(n) == {b \in IntVecs(n, -WMax, WMax) : SumInt(b) > 0}

\* planted k with sum(k) = 0
PlantedK(n) == {k \in IntVecs(n, -1, 1) : SumInt(k) = 0}

InModel(in) == SvdU1(ResidualT(in.lnmx)) # {}

InitLC ==
    /\ \E sh \in Shapes :
          \/ \E L \in IntMats(sh[1], sh[2], 0, MaxVal) : lcIn = GridInput(L)
          \/ \E ax \in PlantedAx(sh[1]), b \in PlantedB(sh[1]), k \in PlantedK(sh[2]) :
                lcIn = PlantedInput(ax, b, k)
    /\ InModel(lcIn)
    /\ lcOut = NoResult
    /\ FcIdle /\ TabIdle /\ RtIdle /\ EvIdle /\ ApcIdle /\ RunIdle

FitLeeCarter ==
    /\ lcIn # Idle
    /\ lcOut = NoResult
    /\ IF FitRaises(lcIn.lnmx)
       THEN lcOut' = [tag |-> "raised"]
       ELSE \E w \in SvdU1(ResidualT(lcIn.lnmx)) :
                lcOut' = fit_lee_carter(lcIn.lnmx, w)
    /\ UNCHANGED <<lcIn, fcVars, tabVars, rtVars, evVars, apcVars, runVars>>

NextLC == FitLeeCarter

\* fit_lee_carter on matrices of every shape, from no age or no year at all
AllShapes == (0..MaxAges) \X (0..MaxYears)

InitLCShapes ==
    /\ \E sh \in AllShapes : \E L \in IntMats(sh[1], sh[2], 0, MaxVal) :
          lcIn = GridInput(L)
    /\ IF FitRaises(lcIn.lnmx) THEN TRUE ELSE InModel(lcIn)
    /\ lcOut = NoResult
    /\ FcIdle /\ TabIdle /\ RtIdle /\ EvIdle /\ ApcIdle /\ RunIdle

SpecLCShapes == InitLCShapes /\ [][NextLC]_vars

SpecLC == InitLC /\ [][NextLC]_vars

(***************************************************************************)
(* forecast_kt (lee-carter.py:101-131).  The module-level name ARIMA       *)
(* (lines 32-35) is None when statsmodels cannot be imported.  What the    *)
(* statsmodels fit does is the environment's choice: it raises, or it      *)
(* returns predicted_mean with one value per step (random walk with        *)
(* drift: the last value plus k times the mean of the differences).        *)
(***************************************************************************)
RECURSIVE MaxOfTo(_, _)
MaxOfTo(s, n) == IF n = 1 THEN s[1] ELSE LET m == MaxOfTo(s, n - 1) IN IF s[n] > m THEN s[n] ELSE m

\* years.max()
MaxOf(s) == MaxOfTo(s, Len(s))

\* a faulty variant of NoHorizon: horizon 0 goes on to the forecast
NoHorizon_StrictlyNegative(horizon) == horizon < 0

\* horizon <= 0: nothing to forecast
NoHorizon(horizon) == horizon <= 0

\* a faulty variant of FutureYears: one year short
FutureYears_OneShort(last_year, horizon) == [k \in 1..(horizon - 1) |-> last_year + k]

\* np.arange(last_year + 1, last_year + 1 + horizon)
FutureYears(last_year, horizon) == [k \in 1..horizon |-> last_year + k]

\* ARIMA(kt, order=(0,1,0), trend="t").fit().get_forecast(steps).predicted_mean
ArimaAttempt(kt, steps, raises) ==
    IF raises
    THEN [tag |-> "raised"]
    ELSE LET n == Len(kt)
             drift == IF n < 2 THEN RInt(0) ELSE RDiv(RSub(kt[n], kt[1]), RInt(n - 1))
         IN  [tag |-> "ok",
              predicted_mean |-> [k \in 1..steps |-> RAdd(kt[n], RMul(RInt(k), drift))]]

\* a faulty variant of Caught: the exception escapes
Caught_Nothing(attempt) == FALSE

\* except Exception: every error the fit or the forecast raises is caught
Caught(attempt) == attempt.tag = "raised"

\* np.polyfit(t, kt, 1): least-squares [b1, b0]; for a single point the
\* minimum-norm solution of the column-scaled system, b1 = y/(2x), b0 = y/2
PolyFit1(t, kt) ==
    LET n == Len(t)
        tr == [i \in 1..n |-> RInt(t[i])]
        tbar == MeanRat(tr)
        ybar == MeanRat(kt)
        sxx == SumRat([i \in 1..n |-> RMul(RSub(tr[i], tbar), RSub(tr[i], tbar))])
        sxy == SumRat([i \in 1..n |-> RMul(RSub(tr[i], tbar), RSub(kt[i], ybar))])
        b1 == IF n = 1 THEN RDiv(kt[1], RInt(2 * t[1])) ELSE RDiv(sxy, sxx)
        b0 == IF n = 1 THEN RDiv(kt[1], RInt(2)) ELSE RSub(ybar, RMul(b1, tbar))
    IN  <<b1, b0>>

\* np.polyval(coef, x)
PolyVal1(coef, x) == RAdd(RMul(coef[1], RInt(x)), coef[2])

LinearTrend(years, kt, future_years) ==
    LET coef == PolyFit1(years, kt)
    IN  [k \in 1..Len(future_years) |-> PolyVal1(coef, future_years[k])]

forecast_kt(years, kt, horizon, arima) ==
    IF NoHorizon(horizon)
    THEN [tag |-> "ok", path |-> "copy", years_f |-> years, kt_f |-> kt]
    ELSE LET last_year == MaxOf(years)
             future_years == FutureYears(last_year, horizon)
             attempt == IF arima.available
                        THEN ArimaAttempt(kt, horizon, arima.raises)
                        ELSE [tag |-> "unavailable"]
         IN  IF attempt.tag = "ok"
             THEN [tag |-> "ok", path |-> "arima",
                   years_f |-> years \o future_years,
                   kt_f |-> kt \o attempt.predicted_mean]
             ELSE IF attempt.tag = "unavailable" \/ Caught(attempt)
             THEN [tag |-> "ok", path |-> "linear",
                   years_f |-> years \o future_years,
                   kt_f |-> kt \o LinearTrend(years, kt, future_years)]
             ELSE [tag |-> "raised", path |-> "arima"]

(***************************************************************************)
(* Inputs of forecast_kt: a sorted, strictly increasing, non-empty history *)
(* (main passes the years of a fitted matrix), kt of the same length.      *)
(***************************************************************************)
Increasing(s) == \A i \in 1..(Len(s) - 1) : s[i] < s[i + 1]

Histories ==
    UNION {{y \in IntVecs(n, 1, MaxYear) : Increasing(y)} : n \in 1..MaxHist}

ForecastInput(y, k, h, av, rs) ==
    [tag |-> "call", years |-> y, kt |-> [i \in 1..Len(y) |-> RInt(k[i])],
     horizon |-> h, arima |-> [available |-> av, raises |-> rs]]

InitFc ==
    /\ \E y \in Histories :
       \E k \in IntVecs(Len(y), -MaxKt, MaxKt) :
       \E h \in (-1)..MaxHorizon :
       \E av \in BOOLEAN, rs \in BOOLEAN :
          fcIn = ForecastInput(y, k, h, av, rs)
    /\ fcOut = NoResult
    /\ fcTab = NoResult
    /\ LcIdle /\ TabIdle /\ RtIdle /\ EvIdle /\ ApcIdle /\ RunIdle

ForecastKt ==
    /\ fcIn # Idle
    /\ fcOut = NoResult
    /\ fcTab = NoResult
    /\ fcOut' = forecast_kt(fcIn.years, fcIn.kt, fcIn.horizon, fcIn.arima)
    /\ UNCHANGED <<fcIn, fcTab, lcVars, tabVars, rtVars, evVars, apcVars, runVars>>

(***************************************************************************)
(* main of lee-carter.py, lines 203-224: the fitted rate table, and with   *)
(* a positive horizon the forecast rate table, from the components of one  *)
(* fit.  The history (years_used, kt) and the horizon are those of the     *)
(* forecast_kt inputs; ax and bx are for two age groups.  np.exp of a      *)
(* rational n/d is kept symbolic as <<n, d, "exp">>.                       *)
(***************************************************************************)
NpExp(x) == <<x[1], x[2], "exp">>

\* pd.DataFrame(np.exp(lnmx), index=ages_used, columns=columns)
RateTable(ages_used, columns, lnmx) ==
    [index |-> ages_used, columns |-> columns,
     values |-> [a \in 1..Len(ages_used) |->
                    [t \in 1..Len(columns) |-> NpExp(lnmx[a][t])]]]

\* if args.horizon and args.horizon > 0
HorizonGiven(horizon) == horizon # 0 /\ horizon > 0

\* a faulty variant of forecast_rates: the table keeps the future years only
forecast_rates_FutureOnly(ages_used, ax, bx, years, f) ==
    LET n == Len(years)
        m == Len(f.years_f)
    IN  RateTable(ages_used, SubSeq(f.years_f, n + 1, m),
                  Surface(ax, bx, SubSeq(f.kt_f, n + 1, m)))

\* mx_future_df: np.exp(ax[:, None] + bx[:, None] * kt_f[None, :]) on years_f
forecast_rates(ages_used, ax, bx, years, f) ==
    RateTable(ages_used, f.years_f, Surface(ax, bx, f.kt_f))

\* ax and bx of a fit on two age groups, sum(bx) = 1
FittedComponents ==
    {[ages_used |-> <<1, 2>>, ax |-> <<RInt(0), RInt(1)>>, bx |-> <<Rat(1, 2), Rat(1, 2)>>],
     [ages_used |-> <<1, 2>>, ax |-> <<RInt(1), RInt(1)>>, bx |-> <<RInt(2), RInt(-1)>>]}

LeeCarterTables ==
    /\ fcIn # Idle
    /\ fcOut = NoResult
    /\ fcTab = NoResult
    /\ \E c \in FittedComponents :
          LET fitted_df == RateTable(c.ages_used, fcIn.years,
                                  Surface(c.ax, c.bx, fcIn.kt))
          IN  IF HorizonGiven(fcIn.horizon)
              THEN LET f == forecast_kt(fcIn.years, fcIn.kt, fcIn.horizon, fcIn.arima)
                   IN  IF f.tag = "ok"
                       THEN fcTab' = [tag |-> "written", fit |-> c, fitted |-> fitted_df,
                                      forecast |-> forecast_rates(c.ages_used, c.ax, c.bx,
                                                                  fcIn.years, f)]
                       ELSE fcTab' = [tag |-> "raised", fit |-> c, fitted |-> fitted_df]
              ELSE fcTab' = [tag |-> "written", fit |-> c, fitted |-> fitted_df,
                             forecast |-> NoResult]
    /\ UNCHANGED <<fcIn, fcOut, lcVars, tabVars, rtVars, evVars, apcVars, runVars>>

NextFc == ForecastKt \/ LeeCarterTables

SpecFc == InitFc /\ [][NextFc]_vars

(***************************************************************************)
(* The mortality table (a pandas DataFrame read from the CSV): the set of  *)
(* columns present, and one row per (ano, sexo, gr_et).  A row that is     *)
(* absent is a missing combination, not a zero row.                        *)
(***************************************************************************)
RequiredColumns == {"ano", "sexo", "gr_et", "poblacion", "conteo_defunciones"}

Sexes == {1, 2}

RECURSIVE SortedSeq(_)
\* np.sort(x.unique()) of a set of integers
SortedSeq(S) ==
    IF S = {} THEN <<>>
    ELSE LET m == CHOOSE x \in S : \A y \in S : x <= y
         IN  <<m>> \o SortedSeq(S \ {m})

Half == Rat(1, 2)

\* a faulty variant of haldane_adjusted_mx: only E < 0 is replaced
haldane_adjusted_mx_ZeroKept(D, E) ==
    RDiv(RAdd(D, Half), IF E[1] < 0 THEN NaN ELSE E)

\* (D + 0.5) / E with E <= 0 replaced by NaN         (lee-carter.py:53-58)
haldane_adjusted_mx(D, E) ==
    RDiv(RAdd(D, Half), IF RNonPos(E) THEN NaN ELSE E)

\* the same rate in the evaluator                     (eval_modelos.py:16-18)
haldane_mx(d, e) ==
    RDiv(RAdd(d, Half), IF RNonPos(e) THEN NaN ELSE e)

\* np.log of a rate x = n/d: the logarithm of a positive rational is kept
\* symbolic as <<n, d, "ln">>; log(0) = -inf, log of a negative number is NaN
NpLog(x) ==
    IF IsFinite(x) /\ x[1] > 0 THEN <<x[1], x[2], "ln">>
    ELSE IF x = <<1, 0>> THEN x
    ELSE IF x = <<0, 1>> THEN <<-1, 0>>
    ELSE NaN

\* a faulty variant of MissingColumns: conteo_defunciones is not required
MissingColumns_DeathsForgotten(df) ==
    (RequiredColumns \ {"conteo_defunciones"}) \ df.cols

\* req - set(df.columns)
MissingColumns(df) == RequiredColumns \ df.cols

\* df.loc[df["sexo"] == sexo]
FilterSex(df, sexo) == {r \in df.rows : r.sexo = sexo}

\* a variant of Pivot that fills the cells without a row with zero
Pivot_ZeroFilled(d, ages, years, values) ==
    [a \in 1..Len(ages) |-> [t \in 1..Len(years) |->
        LET hit == {r \in d : r.gr_et = ages[a] /\ r.ano = years[t]}
        IN  IF hit = {} THEN RInt(0) ELSE values[CHOOSE r \in hit : TRUE]]]

\* d.pivot(index="gr_et", columns="ano", values=col).reindex(index=ages, columns=years):
\* cell (a, t) holds the value of the row of (ages[a], years[t]), NaN without one
Pivot(d, ages, years, values) ==
    [a \in 1..Len(ages) |-> [t \in 1..Len(years) |->
        LET hit == {r \in d : r.gr_et = ages[a] /\ r.ano = years[t]}
        IN  IF hit = {} THEN NaN ELSE values[CHOOSE r \in hit : TRUE]]]

\* the column a pivot takes its values from
Deaths(d) == [r \in d |-> r.conteo_defunciones]
Population(d) == [r \in d |-> r.poblacion]

\* a faulty variant of ObservedMask: the exposure is not required to be positive
ObservedMask_AnyExposure(D, E, a, t) == ~IsNaN(D[a][t]) /\ ~IsNaN(E[a][t])

\* mask = (~np.isnan(D)) & (~np.isnan(E)) & (E > 0)
ObservedMask(D, E, a, t) == ~IsNaN(D[a][t]) /\ ~IsNaN(E[a][t]) /\ RPos(E[a][t])

\* ai, ti = np.where(mask): the cells of the mask in row-major order, 0-based
RECURSIVE WhereFrom(_, _, _, _, _)
WhereFrom(D, E, a, t, T) ==
    IF a > Len(D) THEN <<>>
    ELSE LET rest == IF t = T THEN WhereFrom(D, E, a + 1, 1, T)
                     ELSE WhereFrom(D, E, a, t + 1, T)
         IN  IF ObservedMask(D, E, a, t) THEN <<<<a - 1, t - 1>>>> \o rest ELSE rest

Where(D, E) == IF Len(D) = 0 \/ Len(D[1]) = 0 THEN <<>> ELSE WhereFrom(D, E, 1, 1, Len(D[1]))

\* a faulty variant of CohortIndex: age and year swapped
CohortIndex_Swapped(ai, ti, A) == (ai - ti) + (A - 1)

\* ci = (ti - ai) + (A - 1)
CohortIndex(ai, ti, A) == (ti - ai) + (A - 1)

\* apc_bayes.py:43-78
build_apc_data(df, sexo) ==
    IF MissingColumns(df) # {}
    THEN [tag |-> "error", kind |-> "missing_columns", missing |-> MissingColumns(df),
          steps |-> <<"columns">>]
    ELSE IF FilterSex(df, sexo) = {}
    THEN [tag |-> "error", kind |-> "no_rows", steps |-> <<"columns", "filter">>]
    ELSE LET d == FilterSex(df, sexo)
             ages == SortedSeq({r.gr_et : r \in d})
             years == SortedSeq({r.ano : r \in d})
             D == Pivot(d, ages, years, Deaths(d))
             E == Pivot(d, ages, years, Population(d))
             A == Len(ages)
             T == Len(years)
             cells == Where(D, E)
             N == Len(cells)
             ai == [i \in 1..N |-> cells[i][1]]
             ti == [i \in 1..N |-> cells[i][2]]
             C == A + T - 1
             ci == [i \in 1..N |-> CohortIndex(ai[i], ti[i], A)]
         IN  IF N = 0
             THEN [tag |-> "error", kind |-> "no_observed_cells",
                   steps |-> <<"columns", "filter", "pivot", "mask">>]
             ELSE IF ~(\A i \in 1..N : ci[i] >= 0 /\ ci[i] < C)
             THEN [tag |-> "error", kind |-> "assertion",
                   steps |-> <<"columns", "filter", "pivot", "mask", "cohort">>]
             ELSE [tag |-> "ok", ages |-> ages, years |-> years, D |-> D, E |-> E,
                   ai |-> ai, ti |-> ti, ci |-> ci,
                   steps |-> <<"columns", "filter", "pivot", "mask", "cohort">>]

\* np.add.outer(x, y): entry [i, j] is x[i] + y[j]
AddOuter(x, y) == [i \in 1..Len(x) |-> [j \in 1..Len(y) |-> x[i] + y[j]]]

\* np.arange(n)
Arange(n) == [i \in 1..n |-> i - 1]

\* M.T
Transposed(M, rows, cols) == [j \in 1..cols |-> [i \in 1..rows |-> M[i][j]]]

\* a faulty variant of cohort_mat: the outer sum taken ages first, not transposed
cohort_mat_AgeMinusYear(A, T) ==
    LET outer == AddOuter(Arange(A), [t \in 1..T |-> -Arange(T)[t]])
    IN  [a \in 1..A |-> [t \in 1..T |-> outer[a][t] + (A - 1)]]

\* cohort_mat = (np.add.outer(np.arange(T), -np.arange(A)) + (A - 1)).T
cohort_mat(A, T) ==
    LET outer == AddOuter(Arange(T), [a \in 1..A |-> -Arange(A)[a]])
        shifted == [t \in 1..T |-> [a \in 1..A |-> outer[t][a] + (A - 1)]]
    IN  Transposed(shifted, T, A)

(***************************************************************************)
(* main of lee-carter.py, lines 158-194: load and filter, rates and logs,  *)
(* pivot, the missing-cell policy, and the call of fit_lee_carter.  The    *)
(* log-rates of a table are symbolic, so of the fit only its outcome is    *)
(* kept: on a matrix without rows or without columns the fit raises        *)
(* (numpy's SVD rejects the empty array, or U[:, 0] is out of bounds).     *)
(***************************************************************************)
\* df["lnmx"] = np.log(haldane_adjusted_mx(...)), pivoted on (gr_et, ano)
LnmxPivot(d, ages, years) ==
    [g \in ages, y \in years |->
        LET hit == {r \in d : r.gr_et = g /\ r.ano = y}
        IN  IF hit = {} THEN NaN
            ELSE LET r == CHOOSE r \in hit : TRUE
                 IN  NpLog(haldane_adjusted_mx(r.conteo_defunciones, r.poblacion))]

\* mat.dropna(axis=0, how="all"): the rows with at least one value
DropAllNaRows(M, rows, cols) == {g \in rows : \E y \in cols : ~IsNaN(M[g, y])}

\* mat.dropna(axis=1, how="all"): the columns with at least one value
DropAllNaCols(M, rows, cols) == {y \in cols : \E g \in rows : ~IsNaN(M[g, y])}

\* mat.isna().any().any()
AnyNa(M, rows, cols) == \E g \in rows, y \in cols : IsNaN(M[g, y])

\* a faulty variant of DropNaCols: no year is dropped, so the ages are
DropNaCols_NoneDropped(M, rows, cols) == cols

\* mat.dropna(axis=1): the columns without a missing value
DropNaCols(M, rows, cols) == {y \in cols : \A g \in rows : ~IsNaN(M[g, y])}

\* mat.dropna(axis=0): the rows without a missing value
DropNaRows(M, rows, cols) == {g \in rows : \A y \in cols : ~IsNaN(M[g, y])}

\* lines 180-191: the labels kept by the missing-cell policy
MissingCellPolicy(M, ages, years) ==
    LET r1 == DropAllNaRows(M, ages, years)
        c1 == DropAllNaCols(M, r1, years)
        partial == AnyNa(M, r1, c1)
        c2 == IF partial THEN DropNaCols(M, r1, c1) ELSE c1
        r2 == IF partial THEN DropNaRows(M, r1, c2) ELSE r1
    IN  [ages_used |-> SortedSeq(r2), years_used |-> SortedSeq(c2)]

lee_carter_main(df, sexo) ==
    IF MissingColumns(df) # {}
    THEN [tag |-> "error", kind |-> "missing_columns", missing |-> MissingColumns(df),
          steps |-> <<"columns">>]
    ELSE IF FilterSex(df, sexo) = {}
    THEN [tag |-> "error", kind |-> "no_rows", steps |-> <<"columns", "filter">>]
    ELSE LET d == FilterSex(df, sexo)
             ages == {r.gr_et : r \in d}
             years == {r.ano : r \in d}
             M == LnmxPivot(d, ages, years)
             kept == MissingCellPolicy(M, ages, years)
             lnmx == [a \in 1..Len(kept.ages_used) |->
                        [t \in 1..Len(kept.years_used) |->
                            M[kept.ages_used[a], kept.years_used[t]]]]
         IN  IF FitRaises(lnmx)
             THEN [tag |-> "error", kind |-> "fit_raised",
                   ages_used |-> kept.ages_used, years_used |-> kept.years_used,
                   steps |-> <<"columns", "filter", "rates", "pivot", "fit">>]
             ELSE [tag |-> "ok", ages_used |-> kept.ages_used,
                   years_used |-> kept.years_used, lnmx |-> lnmx,
                   steps |-> <<"columns", "filter", "rates", "pivot", "fit">>]

\* eval_modelos.py:21-33
load_observed(df, sexo) ==
    IF MissingColumns(df) # {}
    THEN [tag |-> "error", kind |-> "missing_columns", missing |-> MissingColumns(df),
          steps |-> <<"columns">>]
    ELSE IF FilterSex(df, sexo) = {}
    THEN [tag |-> "error", kind |-> "no_rows", steps |-> <<"columns", "filter">>]
    ELSE LET d == FilterSex(df, sexo)
             ages == SortedSeq({r.gr_et : r \in d})
             years == SortedSeq({r.ano : r \in d})
             mx_obs == [r \in d |-> haldane_mx(r.conteo_defunciones, r.poblacion)]
         IN  [tag |-> "ok", index |-> ages, columns |-> years,
              obs |-> Pivot(d, ages, years, mx_obs),
              steps |-> <<"columns", "filter", "rates", "pivot">>]

(***************************************************************************)
(* Tables: at most MaxRows rows of sex 1 on distinct cells of the          *)
(* (gr_et, ano) grid, each without population and deaths, or with          *)
(* population PopUnit and 0 or MaxDeaths deaths; with or without one row   *)
(* of sex 2; and tables that lack some of the required columns.            *)
(***************************************************************************)
CellValues ==
    {[poblacion |-> RInt(0), conteo_defunciones |-> RInt(0)]}
        \cup {[poblacion |-> RInt(PopUnit), conteo_defunciones |-> RInt(n)] : n \in {0, MaxDeaths}}

GridKeys == (1..TabAges) \X (1..TabYears)

KeySets(keys) == {K \in SUBSET keys : Cardinality(K) <= MaxRows}

RowsOf(sexo, cells) ==
    {[ano |-> k[2], sexo |-> sexo, gr_et |-> k[1],
      poblacion |-> cells[k].poblacion,
      conteo_defunciones |-> cells[k].conteo_defunciones] : k \in DOMAIN cells}

OtherSexRows ==
    {{}, {[ano |-> 1, sexo |-> 2, gr_et |-> 1,
           poblacion |-> RInt(PopUnit), conteo_defunciones |-> RInt(0)]}}

FullTable(cells, other) ==
    [cols |-> RequiredColumns, rows |-> RowsOf(1, cells) \cup other]

LackingColumns == (SUBSET RequiredColumns) \ {RequiredColumns}

InitTab ==
    /\ \E sx \in Sexes, other \in OtherSexRows :
          \/ \E K \in KeySets(GridKeys) : \E cells \in [K -> CellValues] :
                tabIn = [tag |-> "table", df |-> FullTable(cells, other), sexo |-> sx]
          \/ \E c \in LackingColumns :
                tabIn = [tag |-> "table", df |-> [cols |-> c, rows |-> other], sexo |-> sx]
    /\ tabOut = NoResult
    /\ LcIdle /\ FcIdle /\ RtIdle /\ EvIdle /\ ApcIdle /\ RunIdle

BuildApcData ==
    /\ tabIn # Idle
    /\ tabOut = NoResult
    /\ tabOut' = [fn |-> "build_apc_data", res |-> build_apc_data(tabIn.df, tabIn.sexo)]
    /\ UNCHANGED <<tabIn, lcVars, fcVars, rtVars, evVars, apcVars, runVars>>

\* M[ai, ti]: the entries of M at the paired 0-based indices
TakeCells(M, ai, ti) == [i \in 1..Len(ai) |-> M[ai[i] + 1][ti[i] + 1]]

\* x.astype(int) of a finite value: truncation toward zero
AsTypeInt(x) == IF x[1] >= 0 THEN x[1] \div x[2] ELSE -((-x[1]) \div x[2])

\* y_obs = D[ai, ti].astype(int)
YObs(D, ai, ti) ==
    LET taken == TakeCells(D, ai, ti) IN [i \in 1..Len(ai) |-> AsTypeInt(taken[i])]

\* apc_bayes.py:97-99 and 194-198, on what build_apc_data returned
ApcFittedIndex ==
    /\ tabIn # Idle
    /\ tabOut # NoResult
    /\ tabOut.fn = "build_apc_data"
    /\ tabOut.res.tag = "ok"
    /\ tabOut' = [fn |-> "apc_fitted_index", res |-> tabOut.res,
                  y_obs |-> YObs(tabOut.res.D, tabOut.res.ai, tabOut.res.ti),
                  expo |-> TakeCells(tabOut.res.E, tabOut.res.ai, tabOut.res.ti),
                  cohort_mat |-> cohort_mat(Len(tabOut.res.ages), Len(tabOut.res.years))]
    /\ UNCHANGED <<tabIn, lcVars, fcVars, rtVars, evVars, apcVars, runVars>>

LeeCarterMain ==
    /\ tabIn # Idle
    /\ tabOut = NoResult
    /\ tabOut' = [fn |-> "lee_carter_main", res |-> lee_carter_main(tabIn.df, tabIn.sexo)]
    /\ UNCHANGED <<tabIn, lcVars, fcVars, rtVars, evVars, apcVars, runVars>>

LoadObserved ==
    /\ tabIn # Idle
    /\ tabOut = NoResult
    /\ tabOut' = [fn |-> "load_observed", res |-> load_observed(tabIn.df, tabIn.sexo)]
    /\ UNCHANGED <<tabIn, lcVars, fcVars, rtVars, evVars, apcVars, runVars>>

NextTab == BuildApcData \/ ApcFittedIndex \/ LeeCarterMain \/ LoadObserved

SpecTab == InitTab /\ [][NextTab]_vars

(***************************************************************************)
(* The two rate functions on arrays of death counts D and populations E    *)
(* (element by element), on every input within the bounds.                 *)
(***************************************************************************)
RateCells ==
    {[D |-> RInt(d), E |-> e] :
        d \in 0..MaxD, e \in {RInt(n) : n \in (-MaxE)..MaxE} \cup {NaN}}

InitRt ==
    /\ \E n \in 1..MaxRateLen : \E c \in [1..n -> RateCells] :
          rtIn = [tag |-> "arrays", cells |-> c]
    /\ rtOut = NoResult
    /\ LcIdle /\ FcIdle /\ TabIdle /\ EvIdle /\ ApcIdle /\ RunIdle

HaldaneAdjustedMx ==
    /\ rtIn # Idle
    /\ rtOut = NoResult
    /\ rtOut' = [fn |-> "haldane_adjusted_mx",
                 mx |-> [i \in 1..Len(rtIn.cells) |->
                            haldane_adjusted_mx(rtIn.cells[i].D, rtIn.cells[i].E)]]
    /\ UNCHANGED <<rtIn, lcVars, fcVars, tabVars, evVars, apcVars, runVars>>

HaldaneMx ==
    /\ rtIn # Idle
    /\ rtOut = NoResult
    /\ rtOut' = [fn |-> "haldane_mx",
                 mx |-> [i \in 1..Len(rtIn.cells) |->
                            haldane_mx(rtIn.cells[i].D, rtIn.cells[i].E)]]
    /\ UNCHANGED <<rtIn, lcVars, fcVars, tabVars, evVars, apcVars, runVars>>

NextRt == HaldaneAdjustedMx \/ HaldaneMx

SpecRt == InitRt /\ [][NextRt]_vars

(***************************************************************************)
(* metrics_for (eval_modelos.py:36-71).  A frame (pandas DataFrame) is a   *)
(* record of its index (age groups), its columns (years) and its values,   *)
(* one row per index label.  The observed frame is the pivot returned by   *)
(* load_observed; the fitted frame is the content of fitted_rates.csv.     *)
(* The sklearn metrics are modelled from their documented behaviour: they  *)
(* raise ValueError on arrays without samples, and r2_score returns NaN    *)
(* (with a warning) on fewer than two samples, 1 on a perfect prediction   *)
(* of a constant series and 0 on an imperfect one.  The square root of     *)
(* RMSE is kept symbolic.                                                  *)
(***************************************************************************)
RAbs(x) == <<Abs(x[1]), x[2]>>

RSign(x) == Sign(x[1])

Hundred == RInt(100)

\* np.sqrt of a non-negative rational n/d, kept symbolic as <<n, d, "sqrt">>
NpSqrt(x) == IF IsFinite(x) /\ x[1] >= 0 THEN <<x[1], x[2], "sqrt">> ELSE NaN

SeqToSet(q) == {q[i] : i \in 1..Len(q)}

\* position of a label in an index
PosOf(labels, x) == CHOOSE i \in 1..Len(labels) : labels[i] = x

\* sorted(set(a).intersection(set(b)))
CommonLabels(a, b) == SortedSeq(SeqToSet(a) \cap SeqToSet(b))

\* a variant of NoCommonCells that never stops the evaluation
NoCommonCells_Ignored(ages, years) == FALSE

\* if not ages or not years
NoCommonCells(ages, years) == ages = <<>> \/ years = <<>>

\* a faulty variant of LocRavel: the cells are taken by position, not by label
LocRavel_ByPosition(frame, ages, years) ==
    [n \in 1..(Len(ages) * Len(years)) |->
        frame.values[((n - 1) \div Len(years)) + 1][((n - 1) % Len(years)) + 1]]

\* frame.loc[ages, years].to_numpy().ravel(): the selected cells, row by row
LocRavel(frame, ages, years) ==
    [n \in 1..(Len(ages) * Len(years)) |->
        LET a == ages[((n - 1) \div Len(years)) + 1]
            y == years[((n - 1) % Len(years)) + 1]
        IN  frame.values[PosOf(frame.index, a)][PosOf(frame.columns, y)]]

\* a variant of Comparable that looks at the observed value only
Comparable_ObservedOnly(t, p) == IsFinite(t)

\* mask = np.isfinite(y_true) & np.isfinite(y_pred)
Comparable(t, p) == IsFinite(t) /\ IsFinite(p)

RECURSIVE MaskedTo(_, _, _)
\* the pairs (y_true[i], y_pred[i]) that the mask keeps, in order
MaskedTo(y_true, y_pred, n) ==
    IF n = 0 THEN <<>>
    ELSE IF Comparable(y_true[n], y_pred[n])
         THEN Append(MaskedTo(y_true, y_pred, n - 1), <<y_true[n], y_pred[n]>>)
         ELSE MaskedTo(y_true, y_pred, n - 1)

Masked(y_true, y_pred) == MaskedTo(y_true, y_pred, Len(y_true))

\* sklearn.metrics.mean_absolute_error
mean_absolute_error(y_true, y_pred) ==
    MeanRat([i \in 1..Len(y_true) |-> RAbs(RSub(y_pred[i], y_true[i]))])

\* sklearn.metrics.mean_squared_error(..., squared=False)
mean_squared_error(y_true, y_pred) ==
    NpSqrt(MeanRat([i \in 1..Len(y_true) |->
        RMul(RSub(y_true[i], y_pred[i]), RSub(y_true[i], y_pred[i]))]))

\* np.mean(np.abs((y_true - y_pred) / y_true)) * 100.0
MeanAbsPercentageError(y_true, y_pred) ==
    RMul(MeanRat([i \in 1..Len(y_true) |->
            RAbs(RDiv(RSub(y_true[i], y_pred[i]), y_true[i]))]), Hundred)

\* a variant of MeanPercentageError that drops the sign of each error
MeanPercentageError_Absolute(y_true, y_pred) ==
    RMul(MeanRat([i \in 1..Len(y_true) |->
            RAbs(RDiv(RSub(y_pred[i], y_true[i]), y_true[i]))]), Hundred)

\* np.mean((y_pred - y_true) / y_true) * 100.0
MeanPercentageError(y_true, y_pred) ==
    RMul(MeanRat([i \in 1..Len(y_true) |->
            RDiv(RSub(y_pred[i], y_true[i]), y_true[i])]), Hundred)

\* a variant of r2_score that scores a constant series 0 whatever the prediction
r2_score_ConstantIsZero(y_true, y_pred) ==
    IF Len(y_true) < 2 THEN NaN
    ELSE LET m == MeanRat(y_true)
             ss_res == SumRat([i \in 1..Len(y_true) |->
                          RMul(RSub(y_true[i], y_pred[i]), RSub(y_true[i], y_pred[i]))])
             ss_tot == SumRat([i \in 1..Len(y_true) |->
                          RMul(RSub(y_true[i], m), RSub(y_true[i], m))])
         IN  IF ss_tot # RInt(0) THEN RSub(RInt(1), RDiv(ss_res, ss_tot))
             ELSE RInt(0)

\* sklearn.metrics.r2_score
r2_score(y_true, y_pred) ==
    IF Len(y_true) < 2 THEN NaN
    ELSE LET m == MeanRat(y_true)
             ss_res == SumRat([i \in 1..Len(y_true) |->
                          RMul(RSub(y_true[i], y_pred[i]), RSub(y_true[i], y_pred[i]))])
             ss_tot == SumRat([i \in 1..Len(y_true) |->
                          RMul(RSub(y_true[i], m), RSub(y_true[i], m))])
         IN  IF ss_tot # RInt(0) THEN RSub(RInt(1), RDiv(ss_res, ss_tot))
             ELSE IF ss_res = RInt(0) THEN RInt(1)
             ELSE RInt(0)

\* bias = np.mean(y_pred - y_true)
MeanError(y_true, y_pred) ==
    MeanRat([i \in 1..Len(y_true) |-> RSub(y_pred[i], y_true[i])])

\* eval_modelos.py:36-71; exists: os.path.exists(fitted_path)
metrics_for(exists, fitted, obs_pivot) ==
    IF ~exists
    THEN [tag |-> "error", kind |-> "file_not_found"]
    ELSE LET ages == CommonLabels(obs_pivot.index, fitted.index)
             years == CommonLabels(obs_pivot.columns, fitted.columns)
         IN  IF NoCommonCells(ages, years)
             THEN [tag |-> "error", kind |-> "no_common_cells"]
             ELSE LET pairs == Masked(LocRavel(obs_pivot, ages, years),
                                      LocRavel(fitted, ages, years))
                      y_true == [i \in 1..Len(pairs) |-> pairs[i][1]]
                      y_pred == [i \in 1..Len(pairs) |-> pairs[i][2]]
                  IN  IF Len(pairs) = 0
                      THEN [tag |-> "error", kind |-> "no_samples"]
                      ELSE [tag |-> "ok",
                            y_true |-> y_true, y_pred |-> y_pred,
                            n |-> Len(pairs),
                            MAE |-> mean_absolute_error(y_true, y_pred),
                            RMSE |-> mean_squared_error(y_true, y_pred),
                            MAPE |-> MeanAbsPercentageError(y_true, y_pred),
                            MPE |-> MeanPercentageError(y_true, y_pred),
                            R2 |-> r2_score(y_true, y_pred),
                            Bias |-> MeanError(y_true, y_pred)]

(***************************************************************************)
(* Inputs of metrics_for: at most EvCells cells of the (age, year) grid,   *)
(* each with an observed rate, a fitted rate or both.  An observed rate is *)
(* 1, EvMax or NaN (load_observed gives NaN to a cell without population); *)
(* a fitted rate is 1 or EvMax.  Each frame is the rectangle spanned by    *)
(* its cells, NaN where it has none.  Without cells with a fitted rate the *)
(* fitted file may also not exist.                                         *)
(***************************************************************************)
Absent == <<0, 0, "absent">>

EvRates == {RInt(1), RInt(EvMax)}

EvEntries ==
    {[obs |-> o, fit |-> f] :
        o \in EvRates \cup {NaN, Absent}, f \in EvRates \cup {Absent}}
    \ {[obs |-> Absent, fit |-> Absent]}

EvKeySets == {K \in SUBSET ((1..EvAges) \X (1..EvYears)) : Cardinality(K) <= EvCells}

\* the frame of the observed ("obs") or of the fitted ("fit") rates of the cells
Frame(cells, side) ==
    LET keys == {k \in DOMAIN cells : cells[k][side] # Absent}
        index == SortedSeq({k[1] : k \in keys})
        columns == SortedSeq({k[2] : k \in keys})
    IN  [index |-> index, columns |-> columns,
         values |-> [i \in 1..Len(index) |-> [j \in 1..Len(columns) |->
                        IF <<index[i], columns[j]>> \in keys
                        THEN cells[<<index[i], columns[j]>>][side]
                        ELSE NaN]]]

InitEv ==
    /\ \E K \in EvKeySets : \E cells \in [K -> EvEntries] :
       \E exists \in BOOLEAN :
          /\ ~exists => \A k \in K : cells[k].fit = Absent
          /\ evIn = [tag |-> "pivots", exists |-> exists,
                     obs |-> Frame(cells, "obs"), fit |-> Frame(cells, "fit")]
    /\ evOut = [direct |-> NoResult, swapped |-> NoResult]
    /\ LcIdle /\ FcIdle /\ TabIdle /\ RtIdle /\ ApcIdle /\ RunIdle

\* metrics_for(fitted_path, obs, name)
MetricsFor ==
    /\ evIn # Idle
    /\ evOut.direct = NoResult
    /\ evOut' = [evOut EXCEPT !.direct = metrics_for(evIn.exists, evIn.fit, evIn.obs)]
    /\ UNCHANGED <<evIn, lcVars, fcVars, tabVars, rtVars, apcVars, runVars>>

\* the same call with the two frames exchanged: the observed rates are the
\* file's content and the fitted rates are passed as the observed pivot
MetricsForSwapped ==
    /\ evIn # Idle
    /\ evIn.exists
    /\ evOut.swapped = NoResult
    /\ evOut' = [evOut EXCEPT !.swapped = metrics_for(TRUE, evIn.obs, evIn.fit)]
    /\ UNCHANGED <<evIn, lcVars, fcVars, tabVars, rtVars, apcVars, runVars>>

NextEv == MetricsFor \/ MetricsForSwapped

SpecEv == InitEv /\ [][NextEv]_vars

(***************************************************************************)
(* The APC effects (apc_bayes.py:121-134) and their posterior means        *)
(* (lines 161-170).  For A age groups and T years, alpha has length A,     *)
(* beta length T and gamma length C = A + T - 1.  Each effect is a         *)
(* deterministic function of its increments eps (n - 1 values) and of its  *)
(* sigma; the sampler gives one value of them per chain and draw, here one *)
(* draw in each of the Chains chains.  Increments are -MaxEps, 0 or        *)
(* MaxEps, sigma is 0, 1/2 or MaxSigma.                                    *)
(***************************************************************************)
Chains == 2

EffectNames == {"alpha", "beta", "gamma"}

\* shape + 1 of the increments of an effect: A, T or C = A + T - 1
EffectLength(name, A, T) ==
    IF name = "alpha" THEN A ELSE IF name = "beta" THEN T ELSE A + T - 1

\* pt.cumsum(eps)
CumSum(eps) == [i \in 1..Len(eps) |-> SumIntTo(eps, i)]

\* pt.concatenate([pt.zeros(1), pt.cumsum(eps)]) * sigma
ScaledWalk(eps, sigma) ==
    LET walk == <<0>> \o CumSum(eps)
    IN  [i \in 1..Len(walk) |-> RMul(RInt(walk[i]), sigma)]

\* a variant of MeanSubtracted that leaves the vector as it is
MeanSubtracted_Skipped(v) == v

\* v - pt.mean(v)
MeanSubtracted(v) == LET m == MeanRat(v) IN [i \in 1..Len(v) |-> RSub(v[i], m)]

\* alpha_ = concatenate([0, cumsum(eps)]) * sigma; alpha = alpha_ - mean(alpha_)
Effect(eps, sigma) == MeanSubtracted(ScaledWalk(eps, sigma))

\* post[name].mean(dim=["chain", "draw"]): the mean over the draws, per entry
mean_param(draws) ==
    [i \in 1..Len(draws[1]) |-> MeanRat([c \in 1..Len(draws) |-> draws[c][i]])]

Increments == {-MaxEps, 0, MaxEps}

\* pm.HalfNormal: a sigma is positive
Sigmas == {Half, RInt(MaxSigma)}

InitApc ==
    /\ \E A \in 1..ApcAges, T \in 1..ApcYears, name \in EffectNames :
       \E draws \in [1..Chains ->
                        [eps : [1..(EffectLength(name, A, T) - 1) -> Increments],
                         sigma : Sigmas]] :
          apcIn = [tag |-> "effect", name |-> name, A |-> A, T |-> T, draws |-> draws]
    /\ apcOut = NoResult
    /\ LcIdle /\ FcIdle /\ TabIdle /\ RtIdle /\ EvIdle /\ RunIdle

\* the effect in every draw, and its posterior mean
PosteriorEffect ==
    /\ apcIn # Idle
    /\ apcOut = NoResult
    /\ LET draws == [c \in 1..Chains |->
                        Effect(apcIn.draws[c].eps, apcIn.draws[c].sigma)]
       IN  apcOut' = [tag |-> "posterior", draws |-> draws, mean |-> mean_param(draws)]
    /\ UNCHANGED <<apcIn, lcVars, fcVars, tabVars, rtVars, evVars, runVars>>

NextApc == PosteriorEffect

SpecApc == InitApc /\ [][NextApc]_vars

(***************************************************************************)
(* Runs of the two model scripts on one output directory: main of          *)
(* lee-carter.py (lines 138-291) and main of apc_bayes.py (lines 81-234),  *)
(* one action per step.  Of a run's data only what decides its control     *)
(* flow is kept: whether the table loads (the checks of C9 and C10 pass    *)
(* and the fit does not raise), whether the sampler's libraries import,    *)
(* the options --horizon (positive or not) and --no-plots, and whether and *)
(* when the plotting code raises.  An artifact of the directory is         *)
(* recorded by the number of the run that wrote it, 0 when it is absent;   *)
(* to_csv, to_netcdf and savefig replace the whole file.  A run of the     *)
(* evaluator, main of eval_modelos.py (lines 74-85), loads the observed    *)
(* table, computes the metrics of the two fitted tables and writes its     *)
(* summary; what metrics_for does with a fitted table that exists (C11) is *)
(* the run's environment.  The evaluator reads the two fitted tables at    *)
(* fixed paths, the default output directories of the two models: outdir   *)
(* is the directory that runs are given with --output-dir, and a run       *)
(* without that option writes to its model's default directory, of which   *)
(* the fitted-rate table is kept, as the --sexo of the run that wrote it.  *)
(***************************************************************************)
Models == {"lee_carter", "apc_bayes", "eval"}

\* the tables (and the posterior archive) a run writes, in the order of the code
WriteOrder(model, horizon_positive) ==
    IF model = "lee_carter"
    THEN <<"components.csv", "kt.csv", "fitted_rates.csv">>
            \o (IF horizon_positive THEN <<"forecast_rates.csv", "kt_extended.csv">>
                ELSE <<>>)
    ELSE IF model = "apc_bayes"
    THEN <<"idata.nc", "alpha.csv", "beta.csv", "gamma.csv",
           "components_summary.csv", "fitted_rates.csv">>
    ELSE <<"metrics_overall.csv">>     \* the evaluator's summary

\* the figures a run saves, in the order of the code
PlotOrder(model, horizon_positive) ==
    IF model = "lee_carter"
    THEN <<"ax_bx.png", "kt.png", "heatmap_observado_vs_ajustado.png">>
            \o (IF horizon_positive THEN <<"heatmap_pronostico.png">> ELSE <<>>)
    ELSE IF model = "apc_bayes" THEN <<"alpha_beta_gamma.png">>
    ELSE <<>>

Artifacts ==
    UNION {SeqToSet(WriteOrder(mo, h)) \cup SeqToSet(PlotOrder(mo, h)) :
              mo \in Models, h \in BOOLEAN}

\* the output tables of the two models among the artifacts
Tables == {"components.csv", "kt.csv", "fitted_rates.csv", "forecast_rates.csv",
           "kt_extended.csv", "alpha.csv", "beta.csv", "gamma.csv",
           "components_summary.csv"}

\* the evaluator's summary table
Summary == "metrics_overall.csv"

PlotRaises == {"never", "at_start", "after_first"}

\* what stops a run while it loads its table: a required column is missing, no
\* row has the requested sex, or no cell has a population > 0 (build_apc_data
\* raises; in lee-carter.py every cell is dropped and fit_lee_carter raises; the
\* evaluator's load_observed has no such check and returns a pivot of NaN)
DataErrors(model) ==
    {"missing_columns", "no_rows"}
        \cup (IF model = "eval" THEN {} ELSE {"no_observed_cells"})

\* what metrics_for does with a fitted table: it returns the metrics, or raises
\* for a missing file, for no common age-year cell, or for no finite pair
FittedStates == {"ok", "file_not_found", "no_common_cells", "no_samples"}

\* the options and the environment of a run whose table loads without error
DefaultConfig(model) ==
    [model |-> model, horizon_positive |-> FALSE, no_plots |-> TRUE,
     table_ok |-> TRUE, data_error |-> "none", imports_ok |-> TRUE,
     plot_raises |-> "never", lc_fitted |-> "ok", apc_fitted |-> "ok",
     sexo |-> 1, default_dir |-> FALSE]

\* the runs that differ in their control flow: an option or a part of the
\* environment that the run never reaches is left at its default
RunConfigs ==
    {cfg \in {[DefaultConfig(mo) EXCEPT !.table_ok = FALSE, !.data_error = e,
                                        !.imports_ok = im] :
                 mo \in Models, im \in BOOLEAN,
                 e \in {"missing_columns", "no_rows", "no_observed_cells"}} :
        /\ cfg.data_error \in DataErrors(cfg.model)
        /\ cfg.model # "apc_bayes" => cfg.imports_ok}
    \cup
    {cfg \in {[DefaultConfig(mo) EXCEPT !.horizon_positive = h, !.no_plots = np,
                                        !.plot_raises = pr] :
                 mo \in {"lee_carter", "apc_bayes"}, h \in BOOLEAN, np \in BOOLEAN,
                 pr \in PlotRaises} :
        /\ cfg.no_plots => cfg.plot_raises = "never"
        /\ cfg.model = "apc_bayes" => ~cfg.horizon_positive}
    \cup
    {[DefaultConfig("apc_bayes") EXCEPT !.imports_ok = FALSE]}
    \cup
    {[DefaultConfig(mo) EXCEPT !.sexo = sx, !.default_dir = TRUE] :
        mo \in {"lee_carter", "apc_bayes"}, sx \in Sexes}
    \cup
    {cfg \in {[DefaultConfig("eval") EXCEPT !.lc_fitted = lc, !.apc_fitted = apc] :
                 lc \in FittedStates \ {"file_not_found"},
                 apc \in FittedStates \ {"file_not_found"}} :
        cfg.lc_fitted # "ok" => cfg.apc_fitted = "ok"}

\* obs = load_observed(sexo=1)
EvalSexo == 1

\* the models whose fitted-rate tables the evaluator reads
FittedModels == {"lee_carter", "apc_bayes"}

NoRun == [tag |-> "none"]

InitRun ==
    /\ run = NoRun
    /\ outdir = [exists |-> FALSE, files |-> [f \in Artifacts |-> 0]]
    /\ last = [count |-> 0, ok |-> 0, rec |-> NoRun]     \* ok: the latest model run on outdir that succeeded
    \* at a default path there is no fitted table, or one left by a run with the
    \* default options
    /\ fittedAt \in [FittedModels -> {0, 1}]
    /\ pre = Idle
    /\ LcIdle /\ FcIdle /\ TabIdle /\ RtIdle /\ EvIdle /\ ApcIdle

Running == run # Idle /\ run # NoRun

\* the script is started: parse_args
StartRun ==
    /\ run = NoRun
    /\ last.count < MaxRuns
    /\ \E cfg \in RunConfigs :
          run' = [tag |-> "running", id |-> last.count + 1, cfg |-> cfg,
                  pc |-> "ensure_dir", todo |-> <<>>, sampled |-> FALSE,
                  metrics |-> 0,
                  warnings |-> 0, plot_raised |-> FALSE]
    /\ UNCHANGED <<outdir, last, lcVars, fcVars, tabVars, rtVars, evVars, apcVars, fittedAt, pre>>

\* the run ends, with SystemExit or an uncaught exception unless kind is "ok"
Exit(kind) ==
    /\ last' = [count |-> run.id,
                ok |-> IF kind = "ok" /\ run.cfg.model # "eval" /\ ~run.cfg.default_dir
                       THEN run.id ELSE last.ok,
                rec |-> [tag |-> "ended", id |-> run.id, cfg |-> run.cfg,
                         exit |-> kind, sampled |-> run.sampled,
                         metrics |-> run.metrics,
                         warnings |-> run.warnings,
                         plot_raised |-> run.plot_raised \/ kind = "plot_error"]]
    /\ run' = NoRun

\* ensure_dir(outdir)
EnsureDir ==
    /\ Running /\ run.pc = "ensure_dir"
    /\ outdir' = IF run.cfg.default_dir THEN outdir ELSE [outdir EXCEPT !.exists = TRUE]
    /\ run' = [run EXCEPT !.pc = "load"]
    /\ UNCHANGED <<last, lcVars, fcVars, tabVars, rtVars, evVars, apcVars, fittedAt, pre>>

\* lee-carter.py:159-194 (read, check, pivot, fit); apc_bayes.py:94-101 (read,
\* build_apc_data); eval_modelos.py:76 (load_observed): a table that fails a
\* check raises and ends the run
LoadTable ==
    /\ Running /\ run.pc = "load"
    /\ IF run.cfg.table_ok
       THEN /\ run' = [run EXCEPT !.pc = IF run.cfg.model = "lee_carter"
                                         THEN "write"
                                         ELSE IF run.cfg.model = "apc_bayes"
                                         THEN "import" ELSE "metrics",
                                  !.todo = IF run.cfg.model = "lee_carter"
                                           THEN WriteOrder(run.cfg.model,
                                                           run.cfg.horizon_positive)
                                           ELSE <<>>]
            /\ UNCHANGED last
       ELSE Exit("data_error")
    /\ UNCHANGED <<outdir, lcVars, fcVars, tabVars, rtVars, evVars, apcVars, fittedAt, pre>>

\* a variant of ImportFailed that goes on without the libraries
ImportFailed_Ignored(cfg) == FALSE

\* except Exception as e: raise SystemExit("Se requiere PyMC y ArviZ. ...")
ImportFailed(cfg) == ~cfg.imports_ok

\* apc_bayes.py:104-112
ImportSampler ==
    /\ Running /\ run.pc = "import"
    /\ IF ImportFailed(run.cfg)
       THEN Exit("config_error")
       ELSE run' = [run EXCEPT !.pc = "sample"] /\ UNCHANGED last
    /\ UNCHANGED <<outdir, lcVars, fcVars, tabVars, rtVars, evVars, apcVars, fittedAt, pre>>

\* what metrics_for does with the fitted table of a model
FittedStateOf(cfg, model) ==
    IF fittedAt[model] = 0 THEN "file_not_found"
    ELSE IF model = "lee_carter" THEN cfg.lc_fitted ELSE cfg.apc_fitted

\* the fitted table metrics_for is called on next: Lee-Carter's, then APC's
FittedState(r) ==
    FittedStateOf(r.cfg, IF r.metrics = 0 THEN "lee_carter" ELSE "apc_bayes")

\* a variant of MetricsRaised that goes on when the fitted file is missing
MetricsRaised_MissingFileSkipped(r) == FittedState(r) \notin {"ok", "file_not_found"}

\* metrics_for raises: FileNotFoundError (38), ValueError (44, and line 55 on no pair)
MetricsRaised(r) == FittedState(r) # "ok"

\* eval_modelos.py:77-79: m_lc and m_apc, then the summary frame
ComputeMetrics ==
    /\ Running /\ run.pc = "metrics"
    /\ IF MetricsRaised(run)
       THEN Exit("data_error")
       ELSE /\ run' = IF run.metrics = 0
                      THEN [run EXCEPT !.metrics = 1]
                      ELSE [run EXCEPT !.metrics = 2, !.pc = "write",
                                       !.todo = WriteOrder(run.cfg.model,
                                                           run.cfg.horizon_positive)]
            /\ UNCHANGED last
    /\ UNCHANGED <<outdir, lcVars, fcVars, tabVars, rtVars, evVars, apcVars, fittedAt, pre>>

\* apc_bayes.py:114-156: the model is built and sampled
Sample ==
    /\ Running /\ run.pc = "sample"
    /\ run' = [run EXCEPT !.pc = "write", !.sampled = TRUE,
                          !.todo = WriteOrder(run.cfg.model, run.cfg.horizon_positive)]
    /\ UNCHANGED <<outdir, last, lcVars, fcVars, tabVars, rtVars, evVars, apcVars, fittedAt, pre>>

\* to_csv / to_netcdf of the next artifact: the file is replaced as a whole
WriteArtifact ==
    /\ Running /\ run.pc = "write" /\ run.todo # <<>>
    /\ IF run.cfg.default_dir
       THEN /\ fittedAt' = IF Head(run.todo) = "fitted_rates.csv"
                         THEN [fittedAt EXCEPT ![run.cfg.model] = run.cfg.sexo]
                         ELSE fittedAt
            /\ UNCHANGED outdir
       ELSE /\ outdir' = [outdir EXCEPT !.files[Head(run.todo)] = run.id]
            /\ UNCHANGED fittedAt
    /\ run' = [run EXCEPT !.todo = Tail(run.todo)]
    /\ UNCHANGED <<last, lcVars, fcVars, tabVars, rtVars, evVars, apcVars, pre>>

\* if not args.no_plots: try: ...
BeginPlots ==
    /\ Running /\ run.pc = "write" /\ run.todo = <<>>
    /\ run' = IF run.cfg.no_plots
              THEN [run EXCEPT !.pc = "finish"]
              ELSE [run EXCEPT !.pc = "plot",
                               !.todo = PlotOrder(run.cfg.model, run.cfg.horizon_positive)]
    /\ UNCHANGED <<outdir, last, lcVars, fcVars, tabVars, rtVars, evVars, apcVars, fittedAt, pre>>

\* the figures saved so far by the run
SavedPlots(r) == Len(PlotOrder(r.cfg.model, r.cfg.horizon_positive)) - Len(r.todo)

\* the plotting code raises at this point of the run
PlotRaisesNow(r) ==
    \/ r.cfg.plot_raises = "at_start" /\ SavedPlots(r) = 0
    \/ r.cfg.plot_raises = "after_first" /\ SavedPlots(r) = 1 /\ r.todo # <<>>

\* a variant of PlotErrorCaught that lets the exception end the run
PlotErrorCaught_Never(r) == FALSE

\* except Exception as e: print("Advertencia: no se pudieron generar graficos")
PlotErrorCaught(r) == TRUE

\* one figure is drawn and saved, or the plotting code raises
Plot ==
    /\ Running /\ run.pc = "plot"
    /\ IF PlotRaisesNow(run)
       THEN IF PlotErrorCaught(run)
            THEN /\ run' = [run EXCEPT !.pc = "finish", !.todo = <<>>,
                                       !.warnings = 1, !.plot_raised = TRUE]
                 /\ UNCHANGED <<outdir, last>>
            ELSE /\ Exit("plot_error")
                 /\ UNCHANGED outdir
       ELSE IF run.todo # <<>>
            THEN /\ outdir' = [outdir EXCEPT !.files[Head(run.todo)] = run.id]
                 /\ run' = [run EXCEPT !.todo = Tail(run.todo)]
                 /\ UNCHANGED last
            ELSE /\ run' = [run EXCEPT !.pc = "finish"]
                 /\ UNCHANGED <<outdir, last>>
    /\ UNCHANGED <<lcVars, fcVars, tabVars, rtVars, evVars, apcVars, fittedAt, pre>>

\* print("Listo. Salidas en: ..."): the run ends normally
Finish ==
    /\ Running /\ run.pc = "finish"
    /\ Exit("ok")
    /\ UNCHANGED <<outdir, lcVars, fcVars, tabVars, rtVars, evVars, apcVars, fittedAt, pre>>

NextRun ==
    \/ StartRun \/ EnsureDir \/ LoadTable \/ ImportSampler \/ Sample \/ ComputeMetrics
    \/ WriteArtifact \/ BeginPlots \/ Plot \/ Finish

SpecRun == InitRun /\ [][NextRun]_vars

(***************************************************************************)
(* run_all_preproc.py: main runs four scripts in turn with run_script,     *)
(* which raises FileNotFoundError when the script does not exist and       *)
(* otherwise waits for subprocess.run(cmd, check=True), which raises       *)
(* CalledProcessError on an exit code other than 0 (a negative code when   *)
(* the child was ended by a signal) and OSError when the interpreter       *)
(* cannot be started.  What each script does is the environment's choice.  *)
(***************************************************************************)
\* s_pop, s_gret, s_tub, s_join, in the order of the calls
Scripts ==
    <<"preproc_poblacion.py", "preproc_gret_poblacion.py",
      "preproc_tuberc.py", "preproc_poblac_defunc.py">>

ExitCodes == (-1)..MaxCode

\* what happens when main calls run_script on a script
Outcomes ==
    {[kind |-> "exit", code |-> c] : c \in ExitCodes}
        \cup {[kind |-> "missing", code |-> 0], [kind |-> "os_error", code |-> 0]}

NoException == [kind |-> "none", returncode |-> 0]

\* run_script(script_path, args): the exception it raises, if any
run_script(outcome) ==
    IF outcome.kind = "missing"
    THEN [kind |-> "FileNotFoundError", returncode |-> 0]
    ELSE IF outcome.kind = "os_error"
    THEN [kind |-> "OSError", returncode |-> 0]
    ELSE IF outcome.code # 0
    THEN [kind |-> "CalledProcessError", returncode |-> outcome.code]
    ELSE NoException

\* a faulty variant of ReturnValue: every failure returns 1
ReturnValue_AlwaysOne(exc) == 1

\* except subprocess.CalledProcessError as e: return e.returncode
\* except Exception as ex: return 1
ReturnValue(exc) == IF exc.kind = "CalledProcessError" THEN exc.returncode ELSE 1

InitPre ==
    /\ \E env \in [1..Len(Scripts) -> Outcomes] :
          pre = [tag |-> "running", env |-> env, next |-> 1, log |-> <<>>,
                 exc |-> NoException, ret |-> 0]
    /\ LcIdle /\ FcIdle /\ TabIdle /\ RtIdle /\ EvIdle /\ ApcIdle
    /\ run = Idle /\ outdir = Idle /\ last = Idle /\ fittedAt = Idle

PreRunning == pre # Idle /\ pre.tag = "running"

\* the next call of run_script: the script is started unless it is missing, and
\* main goes on when it has exited with code 0
RunScript ==
    /\ PreRunning
    /\ pre.next <= Len(Scripts)
    /\ pre.exc = NoException
    /\ LET outcome == pre.env[pre.next]
           started == outcome.kind = "exit"
       IN  pre' = [pre EXCEPT
                     !.log = IF started
                             THEN Append(@, [script |-> Scripts[pre.next],
                                             code |-> outcome.code])
                             ELSE @,
                     !.exc = run_script(outcome),
                     !.next = IF run_script(outcome) = NoException THEN @ + 1 ELSE @]
    /\ UNCHANGED <<run, outdir, last, fittedAt,
                   lcVars, fcVars, tabVars, rtVars, evVars, apcVars>>

\* the two except clauses of main
ReturnOnException ==
    /\ PreRunning
    /\ pre.exc # NoException
    /\ pre' = [pre EXCEPT !.tag = "returned", !.ret = ReturnValue(pre.exc)]
    /\ UNCHANGED <<run, outdir, last, fittedAt,
                   lcVars, fcVars, tabVars, rtVars, evVars, apcVars>>

\* return 0
ReturnZero ==
    /\ PreRunning
    /\ pre.next > Len(Scripts)
    /\ pre.exc = NoException
    /\ pre' = [pre EXCEPT !.tag = "returned", !.ret = 0]
    /\ UNCHANGED <<run, outdir, last, fittedAt,
                   lcVars, fcVars, tabVars, rtVars, evVars, apcVars>>

NextPre == RunScript \/ ReturnOnException \/ ReturnZero

SpecPre == InitPre /\ [][NextPre]_vars

(***************************************************************************)
(* The whole model: one of the components is run on one input.             *)
(***************************************************************************)
Init == InitLC \/ InitLCShapes \/ InitFc \/ InitTab \/ InitRt \/ InitEv \/ InitApc \/ InitRun \/ InitPre

Next == NextLC \/ NextFc \/ NextTab \/ NextRt \/ NextEv \/ NextApc \/ NextRun \/ NextPre

Spec == Init /\ [][Next]_vars

(***************************************************************************)
(*                               Claims                                    *)
(***************************************************************************)
Fitted == lcOut.tag = "ok"

IsPlanted == lcIn.planted.tag = "planted"

AsRatMat(L) == [a \in 1..Len(L) |-> [t \in 1..Len(L[a]) |-> RInt(L[a][t])]]

NegVec(v) == [i \in 1..Len(v) |-> RSub(RInt(0), v[i])]

\* every 2 x 2 minor of the residual vanishes: rank(L - rowmean(L)) <= 1
ResidualRankAtMostOne(L) ==
    LET RT == ResidualT(L)
    IN  \A a, b \in 1..NRows(L) : \A s, t \in 1..NCols(L) :
            RT[a][s] * RT[b][t] = RT[a][t] * RT[b][s]

\* C1: for every dense log-rate matrix with at least 2 ages and 2 years the
\* returned bx sums to 1 and the returned kt sums to 0, on the plain-sum branch
\* and on the L1-norm fallback branch alike.
C1_SumBxOneSumKtZero ==
    Fitted => SumRat(lcOut.bx) = RInt(1) /\ SumRat(lcOut.kt) = RInt(0)

\* C2: for every valid dense log-rate matrix L the fitted surface
\* lnmx_fit = ax + bx (x) kt equals L.
C2_FitEqualsInput ==
    Fitted => lcOut.lnmx_fit = AsRatMat(lcIn.lnmx)

\* C2 (amended): lnmx_fit equals L exactly when the residual L - rowmean(L) has
\* rank at most 1; for a residual of higher rank lnmx_fit is the rank-1
\* truncation and differs from L.
C2_FitEqualsInputIffRankOne ==
    Fitted =>
        (lcOut.lnmx_fit = AsRatMat(lcIn.lnmx) <=> ResidualRankAtMostOne(lcIn.lnmx))

C2_Witness ==
    /\ Fitted
    /\ NCols(lcIn.lnmx) = 3
    /\ ResidualRankAtMostOne(lcIn.lnmx)
    /\ ~IsZeroMat(ResidualT(lcIn.lnmx))
    /\ lcOut.lnmx_fit = AsRatMat(lcIn.lnmx)

ErrorKind(r) == IF r.tag = "error" THEN r.kind ELSE "none"

\* C4: for A age groups and T years every cohort index ci = ti - ai + (A-1)
\* produced by build_apc_data lies in 0..A+T-2, so the assertion on ci never
\* fails, and ci = 0 occurs only for the cell (ai = A-1, ti = 0).
C4_CohortIndexRange ==
    tabOut # NoResult /\ tabOut.fn = "build_apc_data" =>
        /\ ErrorKind(tabOut.res) # "assertion"
        /\ tabOut.res.tag = "ok" =>
            LET r == tabOut.res
                A == Len(r.ages)
                T == Len(r.years)
            IN  \A i \in 1..Len(r.ci) :
                    /\ r.ci[i] = r.ti[i] - r.ai[i] + (A - 1)
                    /\ 0 <= r.ci[i] /\ r.ci[i] <= A + T - 2
                    /\ r.ci[i] = 0 => r.ai[i] = A - 1 /\ r.ti[i] = 0

\* a full-size table whose oldest group in the first year (cohort 0) and
\* youngest group in the last year (cohort A+T-2) are both observed
C4_Witness ==
    /\ tabOut # NoResult /\ tabOut.fn = "build_apc_data" /\ tabOut.res.tag = "ok"
    /\ Len(tabOut.res.ages) = TabAges /\ Len(tabOut.res.years) = TabYears
    /\ \E i, j \in 1..Len(tabOut.res.ci) :
          tabOut.res.ci[i] = 0 /\ tabOut.res.ci[j] = TabAges + TabYears - 2

Called == fcOut # NoResult

HistoryLen == Len(fcIn.years)

\* C5: for every horizon h >= 0 and sorted history forecast_kt returns the
\* historical years and kt unchanged as a prefix, followed by exactly h points at
\* years last_year+1 .. last_year+h, so both arrays have length len(years) + h,
\* on the time-series path and on the linear fallback path.
C5_HistoryThenHorizonPoints ==
    Called /\ fcIn.horizon >= 0 =>
        /\ fcOut.tag = "ok"
        /\ Len(fcOut.years_f) = HistoryLen + fcIn.horizon
        /\ Len(fcOut.kt_f) = HistoryLen + fcIn.horizon
        /\ \A i \in 1..HistoryLen :
              fcOut.years_f[i] = fcIn.years[i] /\ fcOut.kt_f[i] = fcIn.kt[i]
        /\ \A k \in 1..fcIn.horizon :
              fcOut.years_f[HistoryLen + k] = fcIn.years[HistoryLen] + k

C5_Witness ==
    /\ Called /\ fcOut.tag = "ok" /\ fcOut.path = "linear"
    /\ fcIn.horizon = MaxHorizon /\ HistoryLen = MaxHist
    /\ Len(fcOut.kt_f) = MaxHist + MaxHorizon

\* C6: forecast_kt called with horizon 0 returns arrays equal element by element
\* to the input years and kt, without running the time-series model or the
\* linear fallback.
C6_HorizonZeroReturnsInput ==
    Called /\ fcIn.horizon = 0 =>
        /\ fcOut.tag = "ok" /\ fcOut.path = "copy"
        /\ fcOut.years_f = fcIn.years
        /\ fcOut.kt_f = fcIn.kt

C6_Witness ==
    /\ Called /\ fcIn.horizon = 0
    /\ fcIn.arima.available /\ ~fcIn.arima.raises
    /\ HistoryLen = MaxHist
    /\ fcOut.path = "copy" /\ fcOut.kt_f = fcIn.kt

\* the line b0 + b1*year satisfies the normal equations of least squares
IsLeastSquaresLine(coef, years, kt) ==
    LET res == [i \in 1..Len(years) |-> RSub(kt[i], PolyVal1(coef, years[i]))]
    IN  /\ SumRat(res) = RInt(0)
        /\ SumRat([i \in 1..Len(years) |-> RMul(RInt(years[i]), res[i])]) = RInt(0)

\* C7: every call with horizon h > 0 returns a result and no exception reaches
\* the caller: when the time-series model is unavailable or its fit or forecast
\* raises, the least-squares line over the history is extrapolated instead, and
\* the linear fallback is used only in those cases.
C7_AlwaysReturnsFallbackOnlyOnFailure ==
    Called /\ fcIn.horizon > 0 =>
        /\ fcOut.tag = "ok"
        /\ fcOut.path = "linear" <=> (~fcIn.arima.available \/ fcIn.arima.raises)
        /\ fcOut.path = "arima" <=> (fcIn.arima.available /\ ~fcIn.arima.raises)
        /\ fcOut.path = "linear" =>
            LET coef == PolyFit1(fcIn.years, fcIn.kt)
            IN  /\ HistoryLen >= 2 => IsLeastSquaresLine(coef, fcIn.years, fcIn.kt)
                /\ \A k \in 1..fcIn.horizon :
                      fcOut.kt_f[HistoryLen + k]
                          = PolyVal1(coef, fcIn.years[HistoryLen] + k)

\* the fit raises and the line through a rising history is extrapolated
C7_Witness ==
    /\ Called /\ fcIn.horizon = MaxHorizon
    /\ fcIn.arima.available /\ fcIn.arima.raises
    /\ fcOut.tag = "ok" /\ fcOut.path = "linear"
    /\ fcIn.years = <<1, 2, 3>> /\ fcIn.kt = <<RInt(-1), RInt(0), RInt(1)>>
    /\ fcOut.kt_f[4] = RInt(2) /\ fcOut.kt_f[5] = RInt(3)

\* C8: the zero-corrected rate (D + 0.5)/E of haldane_adjusted_mx and haldane_mx
\* is strictly positive (and finite) for every death count >= 0 and population
\* > 0, so its logarithm is defined; for population <= 0 it is NaN, never zero
\* or infinite.
C8_RatePositiveOrMissing ==
    rtOut # NoResult =>
        \A i \in 1..Len(rtIn.cells) :
            LET c == rtIn.cells[i]
                m == rtOut.mx[i]
            IN  /\ RPos(c.E) =>
                    /\ IsFinite(m) /\ m[1] > 0
                    /\ m = Rat(2 * c.D[1] + 1, 2 * c.E[1])
                    /\ NpLog(m) = <<m[1], m[2], "ln">>
                /\ RNonPos(c.E) => IsNaN(m)

\* no deaths in a populated cell and a cell without population, in the evaluator
C8_Witness ==
    /\ rtOut # NoResult /\ rtOut.fn = "haldane_mx"
    /\ Len(rtIn.cells) = 2
    /\ rtIn.cells[1] = [D |-> RInt(0), E |-> RInt(MaxE)]
    /\ rtIn.cells[2] = [D |-> RInt(1), E |-> RInt(0)]
    /\ rtOut.mx[1] = Rat(1, 2 * MaxE) /\ IsNaN(rtOut.mx[2])

Loaded == tabOut # NoResult

\* C9: build_apc_data, the Lee-Carter loader in main and load_observed raise a
\* data error naming the missing columns when any required column is absent,
\* and a data error when no row has the requested sex; the column check is made
\* before the sex filter and before any fitting.
C9_MissingColumnsThenNoRows ==
    Loaded =>
        LET df == tabIn.df
            r == tabOut.res
        IN  /\ r.steps[1] = "columns"
            /\ df.cols # RequiredColumns =>
                /\ r.tag = "error" /\ r.kind = "missing_columns"
                /\ r.missing = RequiredColumns \ df.cols
                /\ r.steps = <<"columns">>
            /\ (df.cols = RequiredColumns /\ \A row \in df.rows : row.sexo # tabIn.sexo) =>
                /\ r.tag = "error" /\ r.kind = "no_rows"
                /\ r.steps = <<"columns", "filter">>
            /\ (df.cols = RequiredColumns /\ \E row \in df.rows : row.sexo = tabIn.sexo) =>
                /\ ErrorKind(r) \notin {"missing_columns", "no_rows"}
                /\ Len(r.steps) > 2 /\ r.steps[2] = "filter"

\* two columns are absent and no row has the requested sex: the error names
\* the columns
C9_Witness ==
    /\ Loaded /\ tabOut.fn = "lee_carter_main"
    /\ tabIn.df.cols = RequiredColumns \ {"sexo", "poblacion"}
    /\ \A row \in tabIn.df.rows : row.sexo # tabIn.sexo
    /\ ErrorKind(tabOut.res) = "missing_columns"
    /\ tabOut.res.missing = {"sexo", "poblacion"}

\* C10: when the table filtered by sex has no cell with population > 0, the run
\* raises a data error with a descriptive message immediately, before any model
\* fitting, in the APC builder and in the Lee-Carter pipeline.
C10_NoObservableCellIsDataError ==
    (/\ Loaded
     /\ tabOut.fn \in {"build_apc_data", "lee_carter_main"}
     /\ tabIn.df.cols = RequiredColumns
     /\ \E row \in tabIn.df.rows : row.sexo = tabIn.sexo
     /\ \A row \in tabIn.df.rows : row.sexo = tabIn.sexo => ~RPos(row.poblacion))
        => /\ tabOut.res.tag = "error"
           /\ ErrorKind(tabOut.res) = "no_observed_cells"
           /\ \A i \in 1..Len(tabOut.res.steps) : tabOut.res.steps[i] # "fit"

Evaluated == evOut # NoResult /\ evOut.direct # NoResult

EvaluatedBothWays == Evaluated /\ evOut.swapped # NoResult

\* the cells on a common age and a common year
CommonCells ==
    (SeqToSet(evIn.obs.index) \cap SeqToSet(evIn.fit.index))
        \X (SeqToSet(evIn.obs.columns) \cap SeqToSet(evIn.fit.columns))

ObsAt(c) == evIn.obs.values[PosOf(evIn.obs.index, c[1])][PosOf(evIn.obs.columns, c[2])]

FitAt(c) == evIn.fit.values[PosOf(evIn.fit.index, c[1])][PosOf(evIn.fit.columns, c[2])]

\* the common cells where both rates are finite
ComparableCells == {c \in CommonCells : IsFinite(ObsAt(c)) /\ IsFinite(FitAt(c))}

\* C11: metrics_for returns a metrics record only when at least one comparable
\* pair exists: with no common age or no common year it raises a data error
\* instead of returning, and it never returns metrics computed from zero pairs.
C11_MetricsOnlyFromComparablePairs ==
    Evaluated =>
        LET r == evOut.direct
        IN  /\ r.tag = "ok" <=> (evIn.exists /\ ComparableCells # {})
            /\ r.tag = "ok" => r.n = Cardinality(ComparableCells) /\ r.n >= 1
            /\ (evIn.exists /\ CommonCells = {}) =>
                  r.tag = "error" /\ r.kind = "no_common_cells"

\* both frames have cells, on a common age but on different years
C11_Witness ==
    /\ Evaluated /\ evIn.exists
    /\ SeqToSet(evIn.obs.index) \cap SeqToSet(evIn.fit.index) # {}
    /\ evIn.obs.columns # <<>> /\ evIn.fit.columns # <<>>
    /\ SeqToSet(evIn.obs.columns) \cap SeqToSet(evIn.fit.columns) = {}
    /\ ErrorKind(evOut.direct) = "no_common_cells"

\* the fitted frame equals the observed one on every common cell
IdenticalOnCommonCells == \A c \in CommonCells : ObsAt(c) = FitAt(c)

Zero == RInt(0)

\* C12 (as stated): when the fitted pivot equals the observed pivot on every
\* common cell, metrics_for returns MAE = 0, RMSE = 0, Bias = 0, R2 = 1 and
\* %MAPE = %MPE = 0.
C12_IdenticalPivotsPerfectScores ==
    (Evaluated /\ evOut.direct.tag = "ok" /\ IdenticalOnCommonCells) =>
        LET r == evOut.direct
        IN  /\ r.MAE = Zero /\ r.RMSE = NpSqrt(Zero) /\ r.Bias = Zero
            /\ r.MAPE = Zero /\ r.MPE = Zero
            /\ r.R2 = RInt(1)

\* C12 (amended): when the fitted pivot equals the observed pivot on every
\* common cell, metrics_for returns MAE = 0, RMSE = 0, Bias = 0 and
\* %MAPE = %MPE = 0; R2 is 1 when there are at least two comparable cells and
\* NaN when there is exactly one.
C12_IdenticalPivotsPerfectScoresFromTwoCells ==
    (Evaluated /\ evOut.direct.tag = "ok" /\ IdenticalOnCommonCells) =>
        LET r == evOut.direct
        IN  /\ r.MAE = Zero /\ r.RMSE = NpSqrt(Zero) /\ r.Bias = Zero
            /\ r.MAPE = Zero /\ r.MPE = Zero
            /\ r.n >= 2 => r.R2 = RInt(1)
            /\ r.n = 1 => IsNaN(r.R2)

\* two comparable cells with different rates, the same in both frames
C12_Witness ==
    /\ Evaluated /\ evOut.direct.tag = "ok" /\ IdenticalOnCommonCells
    /\ evOut.direct.n = 2
    /\ \E c, d \in ComparableCells : ObsAt(c) # ObsAt(d)
    /\ evOut.direct.R2 = RInt(1) /\ evOut.direct.MAE = Zero

BothReturned ==
    EvaluatedBothWays /\ evOut.direct.tag = "ok" /\ evOut.swapped.tag = "ok"

\* C13: swapping which series is observed and which is fitted leaves MAE and
\* RMSE unchanged and exactly negates Bias = mean(fitted - observed); the swap
\* returns metrics exactly when the original call does.
C13_SwapKeepsMaeRmseNegatesBias ==
    EvaluatedBothWays =>
        /\ evOut.direct.tag = evOut.swapped.tag
        /\ evOut.direct.tag = "ok" =>
            /\ evOut.swapped.n = evOut.direct.n
            /\ evOut.swapped.MAE = evOut.direct.MAE
            /\ evOut.swapped.RMSE = evOut.direct.RMSE
            /\ evOut.swapped.Bias = RNeg(evOut.direct.Bias)

\* two comparable cells and a bias that is not zero
C13_Witness ==
    /\ BothReturned /\ evOut.direct.n = 2
    /\ RSign(evOut.direct.Bias) = 1 /\ RSign(evOut.swapped.Bias) = -1
    /\ evOut.direct.MAE # Zero

\* C14 (as stated): swapping which series is observed and which is fitted
\* changes the sign of the mean percentage error, for strictly positive series.
C14_SwapFlipsSignOfMpe ==
    BothReturned => RSign(evOut.swapped.MPE) = -RSign(evOut.direct.MPE)

\* p <= q for finite rationals
RLeq(p, q) == p[1] * q[2] <= q[1] * p[2]

\* the fitted rate is at least (at most) the observed one on every comparable cell
NowhereUnder == \A c \in ComparableCells : RLeq(ObsAt(c), FitAt(c))
NowhereOver == \A c \in ComparableCells : RLeq(FitAt(c), ObsAt(c))

\* C14 (amended): for strictly positive series whose errors all have the same
\* direction (fitted >= observed on every comparable cell, or fitted <= observed
\* on every one), swapping the two series changes the sign of the mean
\* percentage error.
C14_SwapFlipsSignOfMpeWhenOneSided ==
    (BothReturned /\ (NowhereUnder \/ NowhereOver)) =>
        RSign(evOut.swapped.MPE) = -RSign(evOut.direct.MPE)

\* the fitted rate is above the observed one on one cell and equal on another
C14_Witness ==
    /\ BothReturned /\ evOut.direct.n = 2 /\ NowhereUnder
    /\ \E c \in ComparableCells : ObsAt(c) # FitAt(c)
    /\ RSign(evOut.direct.MPE) = 1 /\ RSign(evOut.swapped.MPE) = -1

Sampled == apcOut # NoResult

\* C15: each APC effect vector (alpha of length A, beta of length T, gamma of
\* length C = A + T - 1), built as the cumulative sum of n - 1 increments with a
\* leading zero, scaled by its sigma and then mean-subtracted, sums to zero for
\* every increment vector and every sigma; therefore the posterior means of
\* alpha, beta and gamma each sum to zero.
C15_EffectsSumToZero ==
    Sampled =>
        LET n == EffectLength(apcIn.name, apcIn.A, apcIn.T)
        IN  /\ \A c \in 1..Chains :
                  /\ Len(apcOut.draws[c]) = n
                  /\ SumRat(apcOut.draws[c]) = Zero
                  /\ \A i \in 1..n :
                        RSub(apcOut.draws[c][i], apcOut.draws[c][1])
                            = RMul(RInt(SumIntTo(apcIn.draws[c].eps, i - 1)),
                                   apcIn.draws[c].sigma)
            /\ Len(apcOut.mean) = n
            /\ SumRat(apcOut.mean) = Zero

\* gamma for A = T = 2 (three cohorts), two draws with different sigmas and
\* increments, and a posterior mean that is not the zero vector
C15_Witness ==
    /\ Sampled /\ apcIn.name = "gamma" /\ apcIn.A = 2 /\ apcIn.T = 2
    /\ apcIn.draws[1].sigma = Half /\ apcIn.draws[2].sigma = RInt(MaxSigma)
    /\ apcIn.draws[1].eps # apcIn.draws[2].eps
    /\ Len(apcOut.mean) = 3 /\ apcOut.mean[1] # Zero
    /\ SumRat(apcOut.mean) = Zero

Built == tabOut # NoResult /\ tabOut.fn = "build_apc_data" /\ tabOut.res.tag = "ok"

\* the rows of the requested sex
RequestedRows == {r \in tabIn.df.rows : r.sexo = tabIn.sexo}

\* C17: for the rows of the requested sex, build_apc_data returns ages and
\* years as the sorted unique age groups and years, and D and E with one row per
\* age and one column per year in that order, where cell (age, year) holds that
\* row's death count and population, and an (age, year) combination with no row
\* is missing (NaN), not zero.
C17_MatricesAlignedMissingIsNaN ==
    Built =>
        LET r == tabOut.res
        IN  /\ Increasing(r.ages) /\ SeqToSet(r.ages) = {x.gr_et : x \in RequestedRows}
            /\ Increasing(r.years) /\ SeqToSet(r.years) = {x.ano : x \in RequestedRows}
            /\ Len(r.D) = Len(r.ages) /\ Len(r.E) = Len(r.ages)
            /\ \A i \in 1..Len(r.ages) :
                  /\ Len(r.D[i]) = Len(r.years) /\ Len(r.E[i]) = Len(r.years)
                  /\ \A j \in 1..Len(r.years) :
                        LET hit == {x \in RequestedRows :
                                        x.gr_et = r.ages[i] /\ x.ano = r.years[j]}
                        IN  /\ \A x \in hit : /\ r.D[i][j] = x.conteo_defunciones
                                              /\ r.E[i][j] = x.poblacion
                            /\ hit = {} => /\ IsNaN(r.D[i][j]) /\ IsNaN(r.E[i][j])
                                           /\ r.D[i][j] # Zero

\* two ages and two years; the combination (1, 1) has a row of the other sex
\* only, and deaths were counted in another cell
C17_Witness ==
    /\ Built /\ tabIn.sexo = 1
    /\ tabOut.res.ages = <<1, 2>> /\ tabOut.res.years = <<1, 2>>
    /\ \E x \in tabIn.df.rows : x.sexo = 2 /\ x.gr_et = 1 /\ x.ano = 1
    /\ IsNaN(tabOut.res.D[1][1]) /\ IsNaN(tabOut.res.E[1][1])
    /\ tabOut.res.D[2][2] = RInt(MaxDeaths) /\ tabOut.res.E[2][2] = RInt(PopUnit)

Returned == lcOut # NoResult

\* fewer than 2 ages or fewer than 2 years
TooSmall(L) == Len(L) < 2 \/ Len(L[1]) < 2

\* C18: fit_lee_carter returns a result without error for every dense matrix
\* with at least 2 ages and at least 2 years, and signals an error for a matrix
\* that has fewer than 2 ages or fewer than 2 years (including the empty matrix
\* left when the missing-cell policy removes every year).
C18_ErrorExactlyWhenTooSmall ==
    Returned => (lcOut.tag = "raised" <=> TooSmall(lcIn.lnmx))

\* the run that ended last, when no run is under way
Ended == run = NoRun /\ last.rec # NoRun

\* the artifacts of the directory written by run number id
WrittenBy(id) == {f \in Artifacts : outdir.files[f] = id}

EndedWithoutLibraries ==
    Ended /\ last.rec.cfg.model = "apc_bayes" /\ ~last.rec.cfg.imports_ok

\* C16 as stated: an APC run without the sampling libraries ends with the
\* configuration error, has sampled nothing and has written no artifact.
C16_NoLibrariesConfigurationError ==
    EndedWithoutLibraries =>
        /\ last.rec.exit = "config_error"
        /\ ~last.rec.sampled
        /\ WrittenBy(last.rec.id) = {}

\* C16 amended: an APC run without the sampling libraries has sampled nothing
\* and has written no artifact; it ends with the configuration error when its
\* table was read and indexed, and with the error of the table otherwise,
\* because the table is read before the libraries are imported.
C16_NoLibrariesNothingWritten ==
    EndedWithoutLibraries =>
        /\ ~last.rec.sampled
        /\ WrittenBy(last.rec.id) = {}
        /\ last.rec.exit = IF last.rec.cfg.table_ok THEN "config_error"
                           ELSE "data_error"

C16_Witness ==
    /\ EndedWithoutLibraries
    /\ last.rec.cfg.table_ok
    /\ last.rec.exit = "config_error"
    /\ last.rec.id = 2
    /\ last.ok = 1

TablesOf(cfg) == SeqToSet(WriteOrder(cfg.model, cfg.horizon_positive)) \cap Tables

\* C20: while a run plots, each of its output tables is in the directory as
\* that run wrote it; a run whose plotting raised ends normally with one
\* warning, and its tables are still in the directory as it wrote them.
C20_TablesBeforePlotsAndPlotErrorsCaught ==
    /\ (Running /\ run.pc = "plot") =>
          /\ ~run.cfg.no_plots
          /\ \A f \in TablesOf(run.cfg) : outdir.files[f] = run.id
    /\ (Ended /\ last.rec.plot_raised) =>
          /\ last.rec.exit = "ok"
          /\ last.rec.warnings = 1
          /\ \A f \in TablesOf(last.rec.cfg) : outdir.files[f] = last.rec.id

C20_Witness ==
    /\ Ended
    /\ last.rec.plot_raised
    /\ last.rec.exit = "ok"
    /\ last.rec.cfg.plot_raises = "after_first"
    /\ outdir.files["ax_bx.png"] = last.rec.id
    /\ outdir.files["kt.png"] # last.rec.id

\* rowmean(L) + s1 * u1 (x) v1 = rowmean(L) + u1 (x) (R^T u1), before bx is
\* normalized and kt is re-centered; u1 = w/||w||
RawSurface(L, w) ==
    LET ax0 == RowMeans(L)
        ktRawN == KtRawN(ResidualT(L), w)
    IN  [a \in 1..NRows(L) |->
            [t \in 1..NCols(L) |->
                RAdd(ax0[a], RMul(Rat(w[a], Dot(w, w)), ktRawN[t]))]]

\* C21: the surface ax + bx (x) kt returned by fit_lee_carter equals
\* rowmean(L) + s1 * u1 (x) v1 computed before the normalization of bx and the
\* re-centering of kt, whichever divisor was used.
C21_NormalizationKeepsSurface ==
    Fitted => lcOut.lnmx_fit = RawSurface(lcIn.lnmx, lcOut.u1)

\* the L1-norm branch, on a matrix whose residual is not zero
C21_Witness ==
    /\ Fitted
    /\ lcOut.bx_sum.eps
    /\ ~IsZeroMat(ResidualT(lcIn.lnmx))
    /\ lcOut.lnmx_fit = RawSurface(lcIn.lnmx, lcOut.u1)
    /\ lcOut.lnmx_fit # [a \in 1..NRows(lcIn.lnmx) |->
                            [t \in 1..NCols(lcIn.lnmx) |-> RowMeans(lcIn.lnmx)[a]]]

\* the cohort matrix of the fitted surface has been built after build_apc_data
Indexed == tabOut # NoResult /\ tabOut.fn = "apc_fitted_index"

\* C22: for every age index a and year index t, cohort_mat[a, t] equals
\* t - a + (A - 1) and is a position of the gamma vector of length A + T - 1;
\* for every training cell it is the index ci that build_apc_data returned.
C22_CohortMatIsTrainingIndex ==
    Indexed =>
        LET A == Len(tabOut.res.ages)
            T == Len(tabOut.res.years)
            cm == tabOut.cohort_mat
        IN  /\ Len(cm) = A
            /\ \A a \in 0..(A - 1) :
                  /\ Len(cm[a + 1]) = T
                  /\ \A t \in 0..(T - 1) :
                        /\ cm[a + 1][t + 1] = t - a + (A - 1)
                        /\ cm[a + 1][t + 1] \in 0..(A + T - 2)
            /\ \A i \in 1..Len(tabOut.res.ci) :
                  cm[tabOut.res.ai[i] + 1][tabOut.res.ti[i] + 1] = tabOut.res.ci[i]

\* two ages and two years, with training cells on the oldest and the youngest cohort
C22_Witness ==
    /\ Indexed
    /\ Len(tabOut.res.ages) = 2 /\ Len(tabOut.res.years) = 2
    /\ tabOut.cohort_mat = <<<<1, 2>>, <<0, 1>>>>
    /\ \E i, j \in 1..Len(tabOut.res.ci) : tabOut.res.ci[i] = 0 /\ tabOut.res.ci[j] = 2

\* the Lee-Carter pipeline reached the call of fit_lee_carter
HandedToFit ==
    /\ tabOut # NoResult
    /\ tabOut.fn = "lee_carter_main"
    /\ (tabOut.res.tag = "ok" \/ ErrorKind(tabOut.res) = "fit_raised")

\* the log-rate of cell (g, y) of the table, NaN when no row has that cell
OriginalLogRate(g, y) ==
    LET hit == {r \in RequestedRows : r.gr_et = g /\ r.ano = y}
    IN  IF hit = {} THEN NaN
        ELSE LET r == CHOOSE r \in hit : TRUE
             IN  NpLog(haldane_adjusted_mx(r.conteo_defunciones, r.poblacion))

AllAges == {r.gr_et : r \in RequestedRows}

AllYears == {r.ano : r \in RequestedRows}

MissingCell(g, y) == IsNaN(OriginalLogRate(g, y))

\* no missing cell among the retained ones, and each retained cell of the
\* matrix holds the log-rate of the cell its labels name
DenseAndUnchanged ==
    LET au == tabOut.res.ages_used
        yu == tabOut.res.years_used
    IN  /\ \A a \in 1..Len(au), t \in 1..Len(yu) : ~MissingCell(au[a], yu[t])
        /\ tabOut.res.tag = "ok" =>
              /\ Len(tabOut.res.lnmx) = Len(au)
              /\ \A a \in 1..Len(au) :
                    /\ Len(tabOut.res.lnmx[a]) = Len(yu)
                    /\ \A t \in 1..Len(yu) :
                          tabOut.res.lnmx[a][t] = OriginalLogRate(au[a], yu[t])

AgesWithData == {g \in AllAges : \E y \in AllYears : ~MissingCell(g, y)}

RowsAt(a, t) ==
    {r \in RequestedRows :
        r.gr_et = tabOut.res.ages[a + 1] /\ r.ano = tabOut.res.years[t + 1]}

\* the cells with a death count and an exposure, the exposure positive
ObservableCells ==
    {c \in (0..(Len(tabOut.res.ages) - 1)) \X (0..(Len(tabOut.res.years) - 1)) :
        \E r \in RowsAt(c[1], c[2]) :
            ~IsNaN(r.conteo_defunciones) /\ ~IsNaN(r.poblacion) /\ RPos(r.poblacion)}

\* C24: the paired indices (ai, ti) list exactly the cells with a death count
\* and a positive exposure, each once, ci is the cohort of each, and the
\* observations y_obs and expo are the deaths and the exposure of those cells.
C24_TrainingCellsAreTheObservableOnes ==
    Indexed =>
        LET r == tabOut.res
            N == Len(r.ai)
        IN  /\ Len(r.ti) = N /\ Len(r.ci) = N
            /\ Len(tabOut.y_obs) = N /\ Len(tabOut.expo) = N
            /\ {<<r.ai[i], r.ti[i]>> : i \in 1..N} = ObservableCells
            /\ \A i, j \in 1..N :
                  (r.ai[i] = r.ai[j] /\ r.ti[i] = r.ti[j]) => i = j
            /\ \A i \in 1..N :
                  /\ r.ci[i] = r.ti[i] - r.ai[i] + (Len(r.ages) - 1)
                  /\ \A row \in RowsAt(r.ai[i], r.ti[i]) :
                        /\ RInt(tabOut.y_obs[i]) = row.conteo_defunciones
                        /\ tabOut.expo[i] = row.poblacion

\* a table with a cell of zero exposure, a cell without a row, and two
\* training cells, one of them with deaths
C24_Witness ==
    /\ Indexed
    /\ Len(tabOut.res.ai) = 2
    /\ \E row \in RequestedRows : ~RPos(row.poblacion)
    /\ Cardinality(RequestedRows) = 3
    /\ Len(tabOut.res.ages) = 2 /\ Len(tabOut.res.years) = 2
    /\ \E i \in 1..2 : tabOut.y_obs[i] = MaxDeaths
    /\ tabOut.expo = <<RInt(PopUnit), RInt(PopUnit)>>

\* the SVD step of fit_lee_carter returned, so the normalization was reached
Normalized == lcOut # NoResult /\ ~FitRaises(lcIn.lnmx)

\* C25: the divisor of bx is the L1 norm plus 1e-12 exactly when the sum of the
\* first left singular vector is near zero, and the sum otherwise; it is never
\* zero, bx and kt are finite, and the fit returns without an error.
C25_DivisorNeverZero ==
    Normalized =>
        /\ lcOut.tag = "ok"
        /\ lcOut.bx_sum.eps <=> IsCloseZero(SumInt(lcOut.u1), Dot(lcOut.u1, lcOut.u1))
        /\ lcOut.bx_sum.num = IF lcOut.bx_sum.eps THEN L1Norm(lcOut.u1)
                              ELSE SumInt(lcOut.u1)
        /\ lcOut.bx_sum.num # 0
        /\ \A a \in 1..Len(lcOut.bx) : IsFinite(lcOut.bx[a])
        /\ \A t \in 1..Len(lcOut.kt) : IsFinite(lcOut.kt[t])

\* a singular vector whose entries cancel, on a matrix that is not constant by age
C25_Witness ==
    /\ Normalized
    /\ lcOut.tag = "ok"
    /\ SumInt(lcOut.u1) = 0
    /\ lcOut.bx_sum = [num |-> L1Norm(lcOut.u1), eps |-> TRUE]
    /\ ~IsZeroMat(ResidualT(lcIn.lnmx))
    /\ \E a \in 1..Len(lcOut.bx) : lcOut.bx[a] = Half

\* the pairs (observed, fitted) that metrics_for used, by position
UsedPairs == [i \in 1..Len(evOut.direct.y_true) |->
                <<evOut.direct.y_true[i], evOut.direct.y_pred[i]>>]

\* C26: the pairs used by metrics_for are, one for one, the observed and the
\* fitted rate of the common cells where both rates are finite, and n is their
\* number.
C26_PairsAreSameCellFinitePairs ==
    (Evaluated /\ evOut.direct.tag = "ok") =>
        /\ evOut.direct.n = Len(UsedPairs)
        /\ evOut.direct.n = Cardinality(ComparableCells)
        /\ \A p \in {<<ObsAt(c), FitAt(c)>> : c \in CommonCells} \cup SeqToSet(UsedPairs) :
              Cardinality({i \in 1..Len(UsedPairs) : UsedPairs[i] = p})
                 = Cardinality({c \in ComparableCells : <<ObsAt(c), FitAt(c)>> = p})

\* the observed frame has an age the fitted one lacks, so the one comparable
\* cell is in the second row of the observed frame and the first of the fitted
C26_Witness ==
    /\ Evaluated /\ evOut.direct.tag = "ok"
    /\ evOut.direct.n = 1
    /\ evIn.obs.index = <<1, 2>> /\ evIn.fit.index = <<2>>
    /\ IsFinite(evIn.obs.values[1][1])
    /\ UsedPairs = <<<<RInt(1), RInt(EvMax)>>>>
    /\ evIn.obs.values[1][1] # RInt(1)

\* the run's table or one of its fitted tables has a fatal data error
HasDataError(cfg) ==
    \/ cfg.data_error # "none"
    \/ cfg.model = "eval" /\ \E m \in FittedModels : FittedStateOf(cfg, m) # "ok"

\* C27: a run whose input has a fatal data error stops with that error and has
\* written no artifact; the evaluator's summary is written only by a run that
\* computed the metrics of both models.
C27_DataErrorWritesNothing ==
    /\ (Ended /\ HasDataError(last.rec.cfg)) =>
          /\ last.rec.exit = "data_error"
          /\ WrittenBy(last.rec.id) = {}
    /\ (Ended /\ last.rec.exit = "data_error") => WrittenBy(last.rec.id) = {}
    /\ (Running /\ HasDataError(run.cfg)) => WrittenBy(run.id) = {}
    /\ (Running /\ outdir.files[Summary] = run.id) =>
          /\ run.metrics = 2
          /\ ~HasDataError(run.cfg)
    /\ (Ended /\ outdir.files[Summary] = last.rec.id) =>
          /\ last.rec.metrics = 2
          /\ ~HasDataError(last.rec.cfg)

\* an evaluation that stops on the APC table after the metrics of Lee-Carter
\* were computed, in a directory that holds the summary of an earlier evaluation
C27_Witness ==
    /\ Ended
    /\ last.rec.cfg.model = "eval"
    /\ last.rec.cfg.apc_fitted = "no_common_cells"
    /\ last.rec.exit = "data_error"
    /\ last.rec.metrics = 1
    /\ last.rec.id = 2
    /\ outdir.files[Summary] = 1

TablesWritten == fcTab # NoResult /\ fcTab.tag = "written"

MetricsComputed(model) ==
    /\ Running /\ run.cfg.model = "eval"
    /\ run.metrics >= (IF model = "lee_carter" THEN 1 ELSE 2)

\* C29 as stated: whenever the evaluator has computed the metrics of a model,
\* the sex it filtered the observed table by is the sex option of the run that
\* wrote the fitted table it read.
C29_EvaluatedOnTheSexFitted ==
    \A m \in FittedModels : MetricsComputed(m) => fittedAt[m] = EvalSexo

\* the scripts that failed, by their position
FailingSteps ==
    {i \in 1..Len(Scripts) : pre.env[i] # [kind |-> "exit", code |-> 0]}

FirstFailing == CHOOSE i \in FailingSteps : \A j \in FailingSteps : i <= j

\* C30: the scripts are started in the order population, population by age
\* group, deaths, join, each only after the one before exited with code 0; at
\* the first failing step no later script is started and main returns that
\* step's exit code, or 1 when the step failed otherwise; main returns 0 only
\* when all four scripts exited with code 0.
C30_StepsInOrderStopAtFirstFailure ==
    pre # Idle =>
        /\ Len(pre.log) <= Len(Scripts)
        /\ \A i \in 1..Len(pre.log) :
              /\ pre.log[i].script = Scripts[i]
              /\ i < Len(pre.log) => pre.log[i].code = 0
        /\ pre.tag = "returned" =>
              IF FailingSteps = {}
              THEN /\ pre.ret = 0
                   /\ Len(pre.log) = Len(Scripts)
                   /\ \A i \in 1..Len(pre.log) : pre.log[i].code = 0
              ELSE /\ pre.ret # 0
                   /\ \A i \in 1..Len(pre.log) : i <= FirstFailing
                   /\ pre.ret = IF pre.env[FirstFailing].kind = "exit"
                                THEN pre.env[FirstFailing].code ELSE 1

\* the deaths script exits with code MaxCode after two successful steps, the
\* join would have succeeded and is not started
C30_Witness ==
    /\ pre # Idle /\ pre.tag = "returned"
    /\ pre.env[3] = [kind |-> "exit", code |-> MaxCode]
    /\ pre.env[4] = [kind |-> "exit", code |-> 0]
    /\ Len(pre.log) = 3
    /\ pre.ret = MaxCode

====
